---- MODULE Spec2Model ----
(***************************************************************************)
(* A model of the sipparty finite-state-machine engine (src/sip/fsm.py):   *)
(* Timer, RetryThread and FSM, and of the non-INVITE client transaction    *)
(* built on that engine.                                                   *)
(*                                                                         *)
(* Specifications:                                                         *)
(*   SpecTimer      one Timer driven by start/stop/check and the clock     *)
(*   Spec           one synchronous FSM configured and driven by a caller  *)
(*   SpecAsync      an asynchronous FSM: caller thread and RetryThread     *)
(*   FairSpecAsync  SpecAsync with fair scheduling of the threads          *)
(*   SpecCancel     SpecAsync with a caller that cancels the RetryThread   *)
(*   FairSpecCancel SpecCancel with fair scheduling of the threads         *)
(*   SpecAsyncZero  SpecAsync with a timer that has a wait of 0            *)
(*   SpecPair       SpecAsync with an FSM that has two timers              *)
(*   SpecLocks      SpecAsync with the locks of the retry thread explicit  *)
(*   SpecTxn        the non-INVITE client transaction on its timers        *)
(*   SpecTxnResp    the transaction with responses delivered to it         *)
(*   SpecTm         the TransactionManager and its table of transactions   *)
(*   SpecTransport  the blocking calls of the TransportFSM (transport.py)  *)
(*   FairSpecTransport  SpecTransport with its caller scheduled fairly     *)
(***************************************************************************)
EXTENDS Integers, Sequences, FiniteSets, TLC

\* ------------------------------------------------------------------------
\* Bounds of the model.
MaxClock == 4
MaxWait == 2
MaxLen == 2
\* Pop times are followed up to MaxClock + MaxAhead.
MaxAhead == 4
\* Pops of a timer are counted up to MaxPops.
MaxPops == 6
\* The clock of the asynchronous FSM runs up to MaxAsyncClock, and its
\* caller makes up to MaxCalls calls.
MaxAsyncClock == 2
MaxCalls == 2

\* Python's None where a time is absent; as in Python 2 it orders below
\* every number.
None == -1

\* ------------------------------------------------------------------------
\* Timer (src/sip/fsm.py, class Timer)

\* The retry specifications a Timer is built with: a list of waits, or a
\* generator function yielding the same wait for ever (cap = 0) or waits
\* that double up to a cap.
ListRetryers ==
  { [gen |-> FALSE, waits |-> w, cap |-> 0] :
      w \in UNION { [1..n -> 0..MaxWait] : n \in 0..MaxLen } }

GenRetryers ==
  { [gen |-> TRUE, waits |-> <<p>>, cap |-> 0] : p \in 0..MaxWait }

Retryers == ListRetryers \cup GenRetryers

\* What the pop action of a timer does.
TimerActions == {"count", "restart", "stop", "raise", "hit"}

NoIter == [live |-> FALSE, rest |-> <<>>]

\* Timer.__init__
NewTimer(retryer, action) ==
  [retryer |-> retryer, action |-> action, iter |-> NoIter,
   startTime |-> None, alarmTime |-> None]

\* Timer.isRunning
IsRunning(t) == t.startTime # None

\* Timer.nextPopTime
NextPopTime(t) == t.alarmTime

\* self._tmr_retryer(): a fresh iterator over the waits
FreshIter(t) == [live |-> TRUE, rest |-> t.retryer.waits]

\* iterator.next() raises StopIteration
IterExhausted(t) == t.iter.rest = <<>>

IterValue(t) == Head(t.iter.rest)

\* The wait after w of the retransmission generator of a transaction.
BackoffNext(w, cap) == IF 2 * w < cap THEN 2 * w ELSE cap

\* An iterator that yields its first wait again and again.
IterAdvanceRepeats(t) == t.iter

IterAdvance(t) ==
  IF t.retryer.gen
  THEN IF t.retryer.cap = 0 THEN t.iter
       ELSE [live |-> TRUE,
             rest |-> <<BackoffNext(Head(t.iter.rest), t.retryer.cap)>>]
  ELSE [live |-> TRUE, rest |-> Tail(t.iter.rest)]

\* A stop() that forgets to clear the pop time.
TmrStopKeepsAlarm(t) ==
  [t EXCEPT !.startTime = None, !.iter = NoIter]

\* A stop() that leaves the timer running.
TmrStopLeavesRunning(t) == t

\* A stop() that forgets to clear the start time.
TmrStopKeepsStart(t) ==
  [t EXCEPT !.alarmTime = None, !.iter = NoIter]

\* Timer.stop
TmrStop(t) ==
  [t EXCEPT !.startTime = None, !.alarmTime = None, !.iter = NoIter]

\* A _tmr_setNextPopTime that counts every wait from the start time.
TmrSetNextPopTimeFromStart(t) ==
  IF ~IsRunning(t) THEN t
  ELSE IF IterExhausted(t) THEN TmrStop(t)
  ELSE [t EXCEPT !.iter = IterAdvance(t),
                 !.alarmTime = t.startTime + IterValue(t)]

\* Timer._tmr_setNextPopTime
TmrSetNextPopTime(t) ==
  IF ~IsRunning(t) THEN t
  ELSE IF IterExhausted(t) THEN TmrStop(t)
  ELSE [t EXCEPT
          !.iter = IterAdvance(t),
          !.alarmTime = IF t.alarmTime = None
                        THEN t.startTime + IterValue(t)
                        ELSE t.alarmTime + IterValue(t)]

\* A start() that takes the start time to be 0, not the clock.
TmrStartAtZero(t, now) ==
  TmrSetNextPopTime([t EXCEPT !.startTime = 0, !.iter = FreshIter(t)])

\* Timer.start
TmrStart(t, now) ==
  TmrSetNextPopTime([t EXCEPT !.startTime = now, !.iter = FreshIter(t)])

\* Timer._tmr_pop: the timer after its action has run.
TmrPop(t, now) ==
  CASE t.action = "restart" -> TmrStart(t, now)
    [] t.action = "stop" -> TmrStop(t)
    [] OTHER -> t

\* Timer.check: the timer after the call, whether the action ran, and the
\* exception that left the call ("" for a normal return).
TmrCheck(t, now) ==
  IF t.alarmTime = None
  THEN [tmr |-> t, popped |-> FALSE, err |-> "TimerNotRunning"]
  ELSE IF now >= t.alarmTime
  THEN IF t.action = "raise"
       THEN [tmr |-> t, popped |-> TRUE, err |-> "ActionError"]
       ELSE [tmr |-> TmrSetNextPopTime(TmrPop(t, now)),
             popped |-> TRUE, err |-> ""]
  ELSE [tmr |-> t, popped |-> FALSE, err |-> ""]

\* Sum of the first k waits a retryer yields.
RECURSIVE SumWaits(_, _)
SumWaits(r, k) ==
  IF k = 0 THEN 0
  ELSE IF r.gen THEN r.waits[1] + SumWaits(r, k - 1)
  ELSE IF k > Len(r.waits) THEN SumWaits(r, k - 1)
  ELSE r.waits[k] + SumWaits(r, k - 1)

\* ------------------------------------------------------------------------
\* RetryThread.addRetryTime (src/sip/fsm.py): the sorted list of retry
\* times after ctime is added.

\* The index at which the loop over the list stops: the first entry above
\* ctime, or the length of the list; -1 when ctime is already there.
\* A loop that does not stop at an entry equal to ctime.
RECURSIVE InsertIndexKeepsEqual(_, _, _)
InsertIndexKeepsEqual(rts, ctime, ii) ==
  IF ii >= Len(rts) THEN Len(rts)
  ELSE IF ctime < rts[ii + 1] THEN ii
  ELSE InsertIndexKeepsEqual(rts, ctime, ii + 1)

RECURSIVE InsertIndex(_, _, _)
InsertIndex(rts, ctime, ii) ==
  IF ii >= Len(rts) THEN Len(rts)
  ELSE IF ctime < rts[ii + 1] THEN ii
  ELSE IF ctime = rts[ii + 1] THEN -1
  ELSE InsertIndex(rts, ctime, ii + 1)

\* An addRetryTime that appends the time wherever it belongs.
AddRetryTimeAppends(rts, ctime) == Append(rts, ctime)

AddRetryTime(rts, ctime) ==
  LET ii == InsertIndex(rts, ctime, 0) IN
  IF ii = -1 THEN rts
  ELSE SubSeq(rts, 1, ii) \o <<ctime>> \o SubSeq(rts, ii + 1, Len(rts))

\* ------------------------------------------------------------------------
\* FSM (src/sip/fsm.py, class FSM)

States == {"initial", "starting", "running"}

Inputs == {"start", "start_done", "stop", "cleanup"}

\* The names timers are added with; "cleanup" is a name no timer has.
TimerNames == {"retry"}

\* FSM._fsm_state before the first transition is added.
NoState == "None"

\* The retry specification each timer is added with.
RetryerOf(name) == [gen |-> FALSE, waits |-> <<1, 1>>, cap |-> 0]

\* The addTransition calls made by the configuring code.
Trans(old, input, new, action, start, stop) ==
  [old |-> old, input |-> input, new |-> new, action |-> action,
   start |-> start, stop |-> stop]

Calls ==
  { Trans("initial", "start", "starting", "none", <<"retry">>, <<>>),
    Trans("starting", "start", "starting", "none", <<"retry">>, <<>>),
    Trans("starting", "start_done", "running", "act", <<>>, <<"retry">>),
    Trans("initial", "start", "running", "act", <<>>, <<>>),
    Trans("initial", "cleanup", "running", "none", <<"cleanup">>, <<>>) }

\* An entry of the dictionary of one old_state: absent, or the result
\* dictionary of a transition; hasStop tells whether the "stop timers" key
\* was set.
NoEntry ==
  [present |-> FALSE, new |-> NoState, action |-> "none", start |-> <<>>,
   stop |-> <<>>, hasStop |-> FALSE]

NoTimer == [has |-> FALSE, t |-> NewTimer(RetryerOf("retry"), "count")]

NoOp ==
  [name |-> "", input |-> "", from |-> NoState, new |-> NoState,
   err |-> "", acted |-> FALSE, arg |-> ""]

\* The kinds of value handed to Timer as its retryer: a list of waits, an
\* iterator already made, a number, a generator function, and a function
\* that returns no iterator.
RetrySpecKinds ==
  {"list", "iterator", "number", "generator_function", "function"}

\* isinstance(retryer, collections.Iterable)
IsIterable(k) == k \in {"list", "iterator"}

\* isinstance(retryer, collections.Iterator)
IsIterator(k) == k = "iterator"

\* isinstance(retryer, collections.Callable)
IsCallable(k) == k \in {"generator_function", "function"}

\* isinstance(retryer(), collections.Iterator)
ReturnsIterator(k) == k = "generator_function"

\* A constructor that takes any retryer.
TmrInitErrAcceptsAll(k) == ""

\* Timer.__init__: the exception raised for a retryer of kind k.
TmrInitErr(k) ==
  IF IsIterable(k)
  THEN IF IsIterator(k) THEN "ValueError" ELSE ""
  ELSE IF IsCallable(k)
  THEN IF ~ReturnsIterator(k) THEN "ValueError" ELSE ""
  ELSE "ValueError"

\* old_state in self._fsm_transitions
IsKey(table, state) ==
  /\ state \in States
  /\ \E i \in Inputs : table[state][i].present

\* The longest prefix of timer names that are all registered.
RECURSIVE KnownPrefix(_, _)
KnownPrefix(timers, names) ==
  IF names = <<>> THEN <<>>
  ELSE IF Head(names) \notin DOMAIN timers \/ ~timers[Head(names)].has
  THEN <<>>
  ELSE <<Head(names)>> \o KnownPrefix(timers, Tail(names))

\* The result dictionary addTransition leaves in the table: complete when
\* every timer name is known, cut short where the first unknown name is met.
ResultOf(timers, c) ==
  LET ks == KnownPrefix(timers, c.start)
      kp == KnownPrefix(timers, c.stop)
  IN [present |-> TRUE, new |-> c.new, action |-> c.action,
      start |-> ks,
      stop |-> IF ks = c.start THEN kp ELSE <<>>,
      hasStop |-> ks = c.start]

TimersKnown(timers, c) ==
  /\ KnownPrefix(timers, c.start) = c.start
  /\ KnownPrefix(timers, c.stop) = c.stop

\* An addTransition without the check for a registered input: the later
\* transition replaces the earlier one.
FsmAddTransitionOverwrites(table, state, timers, c) ==
  LET t2 == [table EXCEPT ![c.old][c.input] = ResultOf(timers, c)] IN
  IF ~TimersKnown(timers, c)
  THEN [table |-> t2, state |-> state, err |-> "ValueError"]
  ELSE [table |-> t2,
        state |-> IF state = NoState THEN c.old ELSE state,
        err |-> ""]

\* An addTransition that takes every old_state for the initial state.
FsmAddTransitionSetsState(table, state, timers, c) ==
  IF table[c.old][c.input].present
  THEN [table |-> table, state |-> state, err |-> "ValueError"]
  ELSE LET t2 == [table EXCEPT ![c.old][c.input] = ResultOf(timers, c)] IN
       IF ~TimersKnown(timers, c)
       THEN [table |-> t2, state |-> state, err |-> "ValueError"]
       ELSE [table |-> t2, state |-> c.old, err |-> ""]

\* FSM.addTransition: the table, the state and the exception after the call.
FsmAddTransition(table, state, timers, c) ==
  IF table[c.old][c.input].present
  THEN [table |-> table, state |-> state, err |-> "ValueError"]
  ELSE LET t2 == [table EXCEPT ![c.old][c.input] = ResultOf(timers, c)] IN
       IF ~TimersKnown(timers, c)
       THEN [table |-> t2, state |-> state, err |-> "ValueError"]
       ELSE [table |-> t2,
             state |-> IF state = NoState THEN c.old ELSE state,
             err |-> ""]

\* Stop, then start, the timers named in a list, in list order.
\* A hit that stops no timer.
StopAllNothing(timers, names) == timers

RECURSIVE StopAll(_, _)
StopAll(timers, names) ==
  IF names = <<>> THEN timers
  ELSE StopAll([timers EXCEPT ![Head(names)].t = TmrStop(@)], Tail(names))

RECURSIVE StartAll(_, _, _)
StartAll(timers, names, now) ==
  IF names = <<>> THEN timers
  ELSE StartAll([timers EXCEPT ![Head(names)].t = TmrStart(@, now)],
                Tail(names), now)

\* The retry times after the pop times of the timers named in a list have
\* been added, in list order.
RECURSIVE AddAll(_, _, _)
AddAll(rts, timers, names) ==
  IF names = <<>> THEN rts
  ELSE AddAll(AddRetryTime(rts, NextPopTime(timers[Head(names)].t)),
              timers, Tail(names))

\* A hit that soldiers on when the action raises: timers and state are
\* updated before the error is passed on.
FsmHitSoldiersOn(table, state, timers, rts, async, now, input, raises) ==
  LET same(e, a) == [state |-> state, timers |-> timers, rts |-> rts,
                     err |-> e, acted |-> a]
  IN
  IF ~IsKey(table, state) THEN same("KeyError", FALSE)
  ELSE LET res == table[state][input] IN
    IF ~res.present THEN same("UnexpectedInput", FALSE)
    ELSE IF ~res.hasStop THEN same("KeyError", res.action # "none")
    ELSE LET stopped == StopAll(timers, res.stop)
             started == StartAll(stopped, res.start, now)
         IN [state |-> res.new,
             timers |-> started,
             rts |-> IF async THEN AddAll(rts, started, res.start) ELSE rts,
             err |-> IF res.action # "none" /\ raises
                     THEN "ActionError" ELSE "",
             acted |-> res.action # "none"]

\* FSM.hit: the FSM after hit(input) whose action raises or not.
FsmHit(table, state, timers, rts, async, now, input, raises) ==
  LET same(e, a) == [state |-> state, timers |-> timers, rts |-> rts,
                     err |-> e, acted |-> a]
  IN
  IF ~IsKey(table, state) THEN same("KeyError", FALSE)
  ELSE LET res == table[state][input] IN
    IF ~res.present THEN same("UnexpectedInput", FALSE)
    ELSE IF res.action # "none" /\ raises THEN same("ActionError", TRUE)
    ELSE IF ~res.hasStop THEN same("KeyError", res.action # "none")
    ELSE LET stopped == StopAll(timers, res.stop)
             started == StartAll(stopped, res.start, now)
         IN [state |-> res.new,
             timers |-> started,
             rts |-> IF async THEN AddAll(rts, started, res.start) ELSE rts,
             err |-> "",
             acted |-> res.action # "none"]

\* FSM.checkTimers: every running timer is checked, and in asynchronous
\* mode its pop time is handed to the retry thread.
RECURSIVE FsmCheckTimers(_, _, _, _, _)
FsmCheckTimers(timers, rts, async, now, names) ==
  IF names = {} THEN [timers |-> timers, rts |-> rts]
  ELSE LET n == CHOOSE x \in names : TRUE
           t == timers[n].t
       IN IF timers[n].has /\ IsRunning(t)
          THEN LET t2 == TmrCheck(t, now).tmr IN
               FsmCheckTimers([timers EXCEPT ![n].t = t2],
                              IF async THEN AddRetryTime(rts, NextPopTime(t2))
                              ELSE rts,
                              async, now, names \ {n})
          ELSE FsmCheckTimers(timers, rts, async, now, names \ {n})

\* ------------------------------------------------------------------------
\* State.

VARIABLES
  clock,      \* Timer.Clock()
  tmr,        \* the Timer of SpecTimer
  pops,       \* number of times the timer's action was invoked
  npop,       \* pops since the last start() call
  startSnap,  \* the timer as the last start() call left it
  top,        \* the last Timer call and its outcome
  why,        \* how the timer came to be not running
  fsm_transitions,  \* FSM._fsm_transitions
  fsm_state,        \* FSM._fsm_state
  fsm_timers,       \* FSM._fsm_timers
  fsm_async,        \* FSM._fsm_use_async_timers
  rthr_retryTimes,  \* RetryThread._rthr_retryTimes
  op,               \* the last FSM call and its outcome
  pc,               \* where the caller thread and the retry thread are
  call,             \* the FSM call each thread is making
  calls,            \* number of calls the caller thread has made
  fsm_lock,         \* FSM._fsm_lock
  rthr_waiting,     \* the retry thread waits on _rthr_newWorkCondition
  rthr_now,         \* the local now of RetryThread.run
  rthr_cancelled,   \* RetryThread._rthr_cancelled
  rthr_next,        \* the local next of RetryThread.run
  rthr_nextTimesLock,     \* owner of RetryThread._rthr_nextTimesLock
  rthr_newWorkCondition,  \* owner of the lock of _rthr_newWorkCondition
  txn_state,        \* state of the non-INVITE client transaction
  txn_timers,       \* its retransmission and give-up timers
  txn_request,      \* the request it was hit with
  txn_sent,         \* the transport's msgs_sent
  txn_t0,           \* the clock when the request was made
  txn_tu,           \* notifications made to the transaction user
  txn_late,         \* the clock went on while a timer was due
  txn_wait,         \* the timer of the wait in state completed
  txn_in,           \* the last input delivered to the transaction
  tm_table,         \* the TransactionManager's registered transactions
  tm_txns,          \* every transaction the manager has created
  tm_next,          \* the identity of the next transaction created
  tm_op,            \* the last call made to the manager, with its outcome
  tp_state,         \* state of the TransportFSM
  tp_call,          \* the blocking call its caller is making
  tp_calls,         \* number of blocking calls made
  tp_hits           \* number of hits made by other threads

timerVars == <<tmr, pops, npop, startSnap, top, why>>

fsmVars ==
  <<fsm_transitions, fsm_state, fsm_timers, fsm_async, rthr_retryTimes, op>>

lockVars == <<rthr_nextTimesLock, rthr_newWorkCondition>>

asyncVars ==
  <<pc, call, calls, fsm_lock, rthr_waiting, rthr_now, rthr_cancelled,
    rthr_next, lockVars>>

txnVars ==
  <<txn_state, txn_timers, txn_request, txn_sent, txn_t0, txn_tu, txn_late,
    txn_wait, txn_in>>

tmVars == <<tm_table, tm_txns, tm_next, tm_op>>

tpVars == <<tp_state, tp_call, tp_calls, tp_hits>>

vars == <<clock, timerVars, fsmVars, asyncVars, txnVars, tmVars, tpVars>>

NoSnap ==
  [clock |-> None, prior |-> "",
   tmr |-> NewTimer([gen |-> FALSE, waits |-> <<>>, cap |-> 0], "count")]

NoTop ==
  [name |-> "", at |-> None, err |-> "", popped |-> FALSE, k |-> 0,
   t0 |-> None]

\* How the timer stands before a start() call.
Prior == IF IsRunning(tmr) THEN "running" ELSE why

\* FSM.__init__
FsmFresh(async) ==
  /\ fsm_transitions = [s \in States |-> [i \in Inputs |-> NoEntry]]
  /\ fsm_state = NoState
  /\ fsm_timers = [n \in TimerNames |-> NoTimer]
  /\ fsm_async = async
  /\ rthr_retryTimes = <<>>
  /\ op = NoOp

Threads == {"main", "rthr"}

NoCall ==
  [name |-> "", input |-> "", raises |-> FALSE, err |-> "", res |-> NoEntry,
   todo |-> <<>>]

\* threading.RLock(), not held
FreeLock == [owner |-> "free", count |-> 0]

\* No thread is running.
ThreadsFresh ==
  /\ pc = [th \in Threads |-> "idle"]
  /\ call = [th \in Threads |-> NoCall]
  /\ calls = 0
  /\ fsm_lock = FreeLock
  /\ rthr_waiting = FALSE
  /\ rthr_now = 0
  /\ rthr_cancelled = FALSE
  /\ rthr_next = None
  /\ rthr_nextTimesLock = "free"
  /\ rthr_newWorkCondition = "free"

\* ------------------------------------------------------------------------
\* Non-INVITE client transaction (sipparty.sip.transaction.client).

DefaultRetryTimeMS == 500
DefaultMaximumRetryTimeMS == 4000
DefaultGiveupTimeMS == 32000

\* The transaction clock, in ms, advances by TxnStep up to MaxTxnClock.
TxnStep == 250
MaxTxnClock == 33000

MaxDelivers == 3
TxnCompletedWaitMS == 5000

TxnTimerNames == {"retransmit", "giveup"}

\* No input has been delivered yet.
NoDelivery == [n |-> 0, input |-> "", from |-> "", hit |-> "", err |-> ""]

\* The messages a request can be.
Msgs == {"FAKE MESSAGE", "OTHER MESSAGE"}

\* The retry specification of each timer of the transaction.
TxnRetryerOf(name) ==
  IF name = "retransmit"
  THEN [gen |-> TRUE, waits |-> <<DefaultRetryTimeMS>>,
        cap |-> DefaultMaximumRetryTimeMS]
  ELSE [gen |-> FALSE, waits |-> <<DefaultGiveupTimeMS>>, cap |-> 0]

\* ------------------------------------------------------------------------
\* TransportFSM (src/sip/transport.py) and its blocking calls.

\* The blocking calls are made up to MaxTpCalls times, and other threads
\* hit the FSM up to MaxTpHits times.
MaxTpCalls == 2
MaxTpHits == 3

TpStates ==
  {"disconnected", "listening", "connecting", "connected", "error"}

TpInputs ==
  {"connect", "listen", "connected", "send", "disconnect", "error", "reset"}

\* self._tfsm_timeout
TpTimeout == 2

\* TransportFSM.AddClassTransitions: the new state of (state, input), or
\* "" where no transition is added.
TpNewState(state, input) ==
  CASE state = "disconnected" /\ input = "connect" -> "connecting"
    [] state = "connecting" /\ input = "error" -> "error"
    [] state = "connecting" /\ input = "connected" -> "connected"
    [] state = "disconnected" /\ input = "listen" -> "listening"
    [] state = "listening" /\ input = "error" -> "error"
    [] state = "listening" /\ input = "connected" -> "connected"
    [] state = "connected" /\ input = "send" -> "connected"
    [] state = "connected" /\ input = "error" -> "error"
    [] state = "connected" /\ input = "disconnect" -> "disconnected"
    [] state = "error" /\ input = "reset" -> "disconnected"
    [] OTHER -> ""

\* The transition of (state, input) has an action.
TpHasAction(state, input) ==
  TpNewState(state, input) # "" /\ ~(state = "error" /\ input = "reset")

\* FSM.hit on the transport: the state and the exception after the call.
TpHit(state, input, raises) ==
  IF TpNewState(state, input) = ""
  THEN [state |-> state, err |-> "UnexpectedInput"]
  ELSE IF raises /\ TpHasAction(state, input)
  THEN [state |-> state, err |-> "ActionError"]
  ELSE [state |-> TpNewState(state, input), err |-> ""]

TpMethods == {"listen", "connect", "disconnect", "reset"}

\* The input each blocking method hits the FSM with.
TpInputOf(name) == name

\* A tuple of states.
TpTuple(states) == [tuple |-> TRUE, of |-> states]

\* The argument of block_until_states for each method; for reset it is
\* the parenthesised string, not a tuple.
TpEndStates(name) ==
  CASE name = "listen" -> TpTuple({"error", "listening"})
    [] name = "connect" -> TpTuple({"error", "connecting", "connected"})
    [] name = "disconnect" -> TpTuple({"error", "disconnected"})
    [] OTHER -> [tuple |-> FALSE, of |-> {"disconnected"}]

\* The states whose name is a substring of the name of one of the states
\* given: "connected" is one of "disconnected".
TpSubstrings(states) ==
  { s \in TpStates :
      s \in states \/ (s = "connected" /\ "disconnected" \in states) }

\* self.state in end_states: membership in a tuple, substring of a string
TpInEnd(state, end) ==
  IF end.tuple THEN state \in end.of ELSE state \in TpSubstrings(end.of)

\* new_end_states = (self.States.error,)
TpNewEndStates == TpTuple({"error"})

NoTpCall ==
  [name |-> "", pc |-> "idle", end |-> TpTuple({}), start |-> 0, now |-> 0,
   t0 |-> 0, esc |-> 0, out |-> ""]

\* The transport as AddClassTransitions leaves it, no call being made.
TpFresh ==
  /\ tp_state = "disconnected"
  /\ tp_call = NoTpCall
  /\ tp_calls = 0
  /\ tp_hits = 0

\* Transactions are created up to MaxTxns.
MaxTxns == 4

Branches == {"branch1", "branch2"}

\* A message whose Via header carries no branch parameter.
NoBranch == ""

\* The messages handed to the manager: Message.invite() and
\* MessageResponse(200), with the branch of their Via header.
TmMsgs == [kind : {"request", "response"}, branch : Branches \cup {NoBranch}]

NoTxn == [type |-> "", branch |-> NoBranch, state |-> "none"]

NoTmOp ==
  [name |-> "", msg |-> [kind |-> "", branch |-> NoBranch], res |-> 0,
   err |-> "", created |-> FALSE]

\* TransactionManager(tu)
TmFresh ==
  /\ tm_table = {}
  /\ tm_txns = [i \in 1..MaxTxns |-> NoTxn]
  /\ tm_next = 1
  /\ tm_op = NoTmOp

\* The transaction before it is hit with its request.
TxnFresh ==
  /\ txn_state = "initial"
  /\ txn_timers = [n \in TxnTimerNames |-> NewTimer(TxnRetryerOf(n), "count")]
  /\ txn_request = ""
  /\ txn_sent = <<>>
  /\ txn_t0 = None
  /\ txn_tu = <<>>
  /\ txn_late = FALSE
  /\ txn_wait = NewTimer([gen |-> FALSE, waits |-> <<TxnCompletedWaitMS>>,
                           cap |-> 0], "count")
  /\ txn_in = NoDelivery

\* No Timer of its own is in use.
TimerFresh ==
  /\ tmr = NewTimer(RetryerOf("retry"), "count")
  /\ pops = 0
  /\ npop = 0
  /\ startSnap = NoSnap
  /\ top = NoTop
  /\ why = "new"

\* ------------------------------------------------------------------------
\* SpecTimer: one Timer and its clock.

InitTimer ==
  /\ clock = 0
  /\ FsmFresh(FALSE)
  /\ ThreadsFresh
  /\ TxnFresh
  /\ TmFresh
  /\ TpFresh
  /\ \E r \in Retryers, a \in TimerActions \ {"hit"} : tmr = NewTimer(r, a)
  /\ pops = 0
  /\ npop = 0
  /\ startSnap = NoSnap
  /\ top = NoTop
  /\ why = "new"

\* The clock advances.
Tick ==
  /\ clock < MaxClock
  /\ clock' = clock + 1

TimerTick ==
  /\ Tick
  /\ UNCHANGED <<timerVars, fsmVars, asyncVars, txnVars, tmVars, tpVars>>

\* timer.start()
TimerStart ==
  LET t == TmrStart(tmr, clock) IN
  /\ t.alarmTime <= MaxClock + MaxAhead
  /\ tmr' = t
  /\ npop' = 0
  /\ startSnap' = [clock |-> clock, prior |-> Prior, tmr |-> t]
  /\ top' = [NoTop EXCEPT !.name = "start", !.at = clock]
  /\ why' = IF IsRunning(t) THEN "" ELSE "exhausted"
  /\ UNCHANGED <<clock, pops, fsmVars, asyncVars, txnVars, tmVars, tpVars>>

\* timer.stop()
TimerStop ==
  /\ tmr' = TmrStop(tmr)
  /\ top' = [NoTop EXCEPT !.name = "stop", !.at = clock]
  /\ why' = IF IsRunning(tmr) THEN "stop" ELSE why
  /\ UNCHANGED <<clock, pops, npop, startSnap, fsmVars, asyncVars, txnVars, tmVars, tpVars>>

\* timer.check()
TimerCheck ==
  LET res == TmrCheck(tmr, clock)
      inner == res.popped /\ tmr.action = "restart"
  IN
  /\ res.popped => pops < MaxPops
  /\ tmr' = res.tmr
  /\ pops' = IF res.popped THEN pops + 1 ELSE pops
  /\ npop' = IF inner THEN 0 ELSE IF res.popped THEN npop + 1 ELSE npop
  /\ startSnap' = IF inner
                  THEN [clock |-> clock, prior |-> "inpop",
                        tmr |-> TmrPop(tmr, clock)]
                  ELSE startSnap
  /\ top' = [name |-> "check", at |-> clock, err |-> res.err, popped |-> res.popped,
             k |-> IF res.popped THEN npop + 1 ELSE 0,
             t0 |-> IF res.popped THEN startSnap.clock ELSE None]
  /\ why' = IF IsRunning(res.tmr) THEN ""
            ELSE IF ~IsRunning(tmr) THEN why
            ELSE IF tmr.action = "stop" THEN "stop"
            ELSE "exhausted"
  /\ UNCHANGED <<clock, fsmVars, asyncVars, txnVars, tmVars, tpVars>>

\* timer.check(exception_if_not_running=False): check takes no argument,
\* so the call raises TypeError before the method runs.
TimerCheckTolerant ==
  /\ top' = [NoTop EXCEPT !.name = "check_tolerant", !.at = clock,
                          !.err = "TypeError"]
  /\ UNCHANGED <<clock, tmr, pops, npop, startSnap, why, fsmVars, asyncVars,
                 txnVars, tmVars, tpVars>>

NextTimer ==
  \/ TimerTick
  \/ TimerStart
  \/ TimerStop
  \/ TimerCheck
  \/ TimerCheckTolerant

SpecTimer == InitTimer /\ [][NextTimer]_vars

\* ------------------------------------------------------------------------
\* Spec: one FSM with synchronous timers, configured and driven by its
\* caller.

Init ==
  /\ clock = 0
  /\ TimerFresh
  /\ FsmFresh(FALSE)
  /\ ThreadsFresh
  /\ TxnFresh
  /\ TmFresh
  /\ TpFresh

FsmTick ==
  /\ Tick
  /\ UNCHANGED <<timerVars, fsmVars, asyncVars, txnVars, tmVars, tpVars>>

\* The kinds of retryer the caller hands to addTimer.
AddTimerKinds == RetrySpecKinds \ {"generator_function"}

\* fsm.addTimer(name, action, retryer), for a name not yet in use and a
\* retryer of kind k
AddTimer(name, k) ==
  /\ ~fsm_timers[name].has
  /\ fsm_timers' = IF TmrInitErr(k) = ""
                   THEN [fsm_timers EXCEPT
                           ![name] = [has |-> TRUE,
                                      t |-> NewTimer(RetryerOf(name),
                                                     "count")]]
                   ELSE fsm_timers
  /\ op' = [NoOp EXCEPT !.name = "addTimer", !.input = name,
                        !.from = fsm_state, !.arg = k,
                        !.err = TmrInitErr(k)]
  /\ UNCHANGED <<clock, timerVars, fsm_transitions, fsm_state, fsm_async,
                 rthr_retryTimes, asyncVars, txnVars, tmVars, tpVars>>

\* fsm.addTransition(old_state, input, new_state, action, start_timers,
\* stop_timers)
AddTransition(c) ==
  LET r == FsmAddTransition(fsm_transitions, fsm_state, fsm_timers, c) IN
  /\ fsm_transitions' = r.table
  /\ fsm_state' = r.state
  /\ op' = [NoOp EXCEPT !.name = "addTransition", !.input = c.input,
                        !.from = c.old, !.new = c.new, !.err = r.err]
  /\ UNCHANGED <<clock, timerVars, fsm_timers, fsm_async, rthr_retryTimes,
                 asyncVars, txnVars, tmVars, tpVars>>

\* fsm.setState(state)
\* A setState that sets any state.
SetStateUnchecked(state) ==
  /\ fsm_state' = state
  /\ op' = [NoOp EXCEPT !.name = "setState", !.input = state,
                        !.from = fsm_state]
  /\ UNCHANGED <<clock, timerVars, fsm_transitions, fsm_timers, fsm_async,
                 rthr_retryTimes, asyncVars, txnVars, tmVars, tpVars>>

SetState(state) ==
  /\ IF IsKey(fsm_transitions, state)
     THEN /\ fsm_state' = state
          /\ op' = [NoOp EXCEPT !.name = "setState", !.input = state,
                                !.from = fsm_state]
     ELSE /\ fsm_state' = fsm_state
          /\ op' = [NoOp EXCEPT !.name = "setState", !.input = state,
                                !.from = fsm_state, !.err = "TypeError"]
  /\ UNCHANGED <<clock, timerVars, fsm_transitions, fsm_timers, fsm_async,
                 rthr_retryTimes, asyncVars, txnVars, tmVars, tpVars>>

\* fsm.hit(input, *args)
Hit(input, raises) ==
  LET r == FsmHit(fsm_transitions, fsm_state, fsm_timers, rthr_retryTimes,
                  fsm_async, clock, input, raises)
  IN
  /\ \A n \in TimerNames : r.timers[n].t.alarmTime <= MaxClock + MaxAhead
  /\ fsm_state' = r.state
  /\ fsm_timers' = r.timers
  /\ rthr_retryTimes' = r.rts
  /\ op' = [name |-> "hit", input |-> input, from |-> fsm_state,
            new |-> r.state, err |-> r.err, acted |-> r.acted, arg |-> ""]
  /\ UNCHANGED <<clock, timerVars, fsm_transitions, fsm_async, asyncVars, txnVars, tmVars, tpVars>>

\* fsm.checkTimers()
CheckTimers ==
  LET r == FsmCheckTimers(fsm_timers, rthr_retryTimes, fsm_async, clock,
                          TimerNames)
  IN
  /\ fsm_timers' = r.timers
  /\ rthr_retryTimes' = r.rts
  /\ op' = [NoOp EXCEPT !.name = "checkTimers", !.from = fsm_state]
  /\ UNCHANGED <<clock, timerVars, fsm_transitions, fsm_state, fsm_async,
                 asyncVars, txnVars, tmVars, tpVars>>

Next ==
  \/ FsmTick
  \/ \E n \in TimerNames, k \in AddTimerKinds : AddTimer(n, k)
  \/ \E c \in Calls : AddTransition(c)
  \/ \E s \in States : SetState(s)
  \/ \E i \in Inputs, raises \in BOOLEAN : Hit(i, raises)
  \/ CheckTimers

Spec == Init /\ [][Next]_vars

\* ------------------------------------------------------------------------
\* SpecAsync: an FSM with asynchronous timers; its caller thread ("main")
\* and its RetryThread ("rthr") interleave statement by statement.

\* FSM.onlyWhenLocked never takes the lock.
UsesLockNever(async) == FALSE

\* FSM.onlyWhenLocked: the lock is taken in asynchronous mode.
UsesLock(async) == async

\* threading.RLock: free, or held by the acquiring thread itself.
CanAcquire(lock, th) == lock.owner = "free" \/ lock.owner = th

Acquired(lock, th) == [owner |-> th, count |-> lock.count + 1]

Released(lock) ==
  IF lock.count <= 1 THEN FreeLock ELSE [lock EXCEPT !.count = @ - 1]

\* The order in which checkTimers visits the timers.
TimerOrder ==
  IF "giveup" \in DOMAIN fsm_timers THEN <<"retry", "giveup">>
  ELSE <<"retry">>

\* The input the pop action of a timer with action "hit" hits the FSM with.
PopInput == "cleanup"

\* The table of the asynchronous FSM, in the order it is built.
AsyncCalls ==
  << Trans("initial", "start", "starting", "none", <<"retry">>, <<>>),
     Trans("starting", "start", "starting", "none", <<"retry">>, <<>>),
     Trans("starting", "start_done", "running", "act", <<>>, <<"retry">>),
     Trans("running", "stop", "initial", "none", <<>>, <<>>),
     Trans("starting", "cleanup", "initial", "none", <<>>, <<"retry">>),
     Trans("running", "start", "starting", "none", <<"retry">>,
           <<"retry">>) >>

RECURSIVE BuildTable(_, _, _, _)
BuildTable(cs, table, state, timers) ==
  IF cs = <<>> THEN [table |-> table, state |-> state]
  ELSE LET r == FsmAddTransition(table, state, timers, Head(cs)) IN
       BuildTable(Tail(cs), r.table, r.state, timers)

\* The caller is idle and the retry thread, started by FSM.__init__, is at
\* the top of its loop.
ThreadsStarted ==
  /\ pc = [th \in Threads |-> IF th = "rthr" THEN "r_len" ELSE "idle"]
  /\ call = [th \in Threads |-> NoCall]
  /\ calls = 0
  /\ fsm_lock = FreeLock
  /\ rthr_waiting = FALSE
  /\ rthr_now = 0
  /\ rthr_cancelled = FALSE
  /\ rthr_next = None
  /\ rthr_nextTimesLock = "free"
  /\ rthr_newWorkCondition = "free"

\* The asynchronous FSM as its configuring code leaves it, its timer built
\* on one of the retryers given.
AsyncInit(retryers) ==
  /\ clock = 0
  /\ TimerFresh
  /\ TxnFresh
  /\ TmFresh
  /\ TpFresh
  /\ \E a \in {"count", "hit"}, r \in retryers :
       LET timers == [n \in TimerNames |->
                        [has |-> TRUE, t |-> NewTimer(r, a)]]
           built == BuildTable(AsyncCalls,
                               [s \in States |-> [i \in Inputs |-> NoEntry]],
                               NoState, timers)
       IN /\ fsm_timers = timers
          /\ fsm_transitions = built.table
          /\ fsm_state = built.state
  /\ fsm_async = TRUE
  /\ rthr_retryTimes = <<>>
  /\ op = NoOp
  /\ ThreadsStarted

InitAsync == AsyncInit({RetryerOf("retry")})

Goto(th, loc) == pc' = [pc EXCEPT ![th] = loc]

AsyncTick ==
  /\ clock < MaxAsyncClock
  /\ clock' = clock + 1
  /\ UNCHANGED <<timerVars, fsmVars, asyncVars, txnVars, tmVars, tpVars>>

\* The caller thread calls hit, checkTimers or setState.
MainCall(name, input, raises) ==
  /\ pc["main"] = "idle"
  /\ calls < MaxCalls
  /\ calls' = calls + 1
  /\ call' = [call EXCEPT !["main"] =
                [NoCall EXCEPT !.name = name, !.input = input,
                               !.raises = raises]]
  /\ Goto("main", "lock")
  /\ UNCHANGED <<txnVars, tmVars, tpVars, clock, timerVars, fsmVars, fsm_lock, rthr_waiting, rthr_now, rthr_cancelled, rthr_next, lockVars>>

\* maybeGetLock: with self._fsm_lock
Lock(th) ==
  /\ pc[th] = "lock"
  /\ IF UsesLock(fsm_async)
     THEN /\ CanAcquire(fsm_lock, th)
          /\ fsm_lock' = Acquired(fsm_lock, th)
     ELSE fsm_lock' = fsm_lock
  /\ Goto(th, CASE call[th].name = "hit" -> "h_action"
                [] call[th].name = "checkTimers" -> "c_check"
                [] OTHER -> "s_set")
  /\ call' = [call EXCEPT ![th].todo =
                IF call[th].name = "checkTimers" THEN TimerOrder ELSE <<>>]
  /\ UNCHANGED <<txnVars, tmVars, tpVars, clock, timerVars, fsmVars, calls, rthr_waiting, rthr_now, rthr_cancelled, rthr_next, lockVars>>

\* hit: the transition is looked up and its action run.
HitAction(th) ==
  /\ pc[th] = "h_action"
  /\ LET c == call[th]
         res == IF IsKey(fsm_transitions, fsm_state)
                THEN fsm_transitions[fsm_state][c.input] ELSE NoEntry
         err == IF ~IsKey(fsm_transitions, fsm_state) THEN "KeyError"
                ELSE IF ~res.present THEN "UnexpectedInput"
                ELSE IF res.action # "none" /\ c.raises THEN "ActionError"
                ELSE IF ~res.hasStop THEN "KeyError"
                ELSE ""
     IN /\ call' = [call EXCEPT ![th].err = err, ![th].res = res]
        /\ Goto(th, IF err = "" THEN "h_stop" ELSE "unlock")
  /\ UNCHANGED <<txnVars, tmVars, tpVars, clock, timerVars, fsmVars, calls, fsm_lock, rthr_waiting,
                 rthr_now, rthr_cancelled, rthr_next, lockVars>>

\* hit: the timers of stop_timers are stopped.
HitStop(th) ==
  /\ pc[th] = "h_stop"
  /\ fsm_timers' = StopAll(fsm_timers, call[th].res.stop)
  /\ Goto(th, "h_state")
  /\ UNCHANGED <<txnVars, tmVars, tpVars, clock, timerVars, fsm_transitions, fsm_state, fsm_async,
                 rthr_retryTimes, op, call, calls, fsm_lock, rthr_waiting,
                 rthr_now, rthr_cancelled, rthr_next, lockVars>>

\* A hit that leaves the state as it was.
HitStateSkipped(th) ==
  /\ pc[th] = "h_state"
  /\ fsm_state' = fsm_state
  /\ call' = [call EXCEPT ![th].todo = call[th].res.start]
  /\ Goto(th, "h_start")
  /\ UNCHANGED <<txnVars, tmVars, tpVars, clock, timerVars, fsm_transitions, fsm_timers, fsm_async,
                 rthr_retryTimes, op, calls, fsm_lock, rthr_waiting,
                 rthr_now, rthr_cancelled, rthr_next, lockVars>>

\* hit: the state is changed.
HitState(th) ==
  /\ pc[th] = "h_state"
  /\ fsm_state' = call[th].res.new
  /\ call' = [call EXCEPT ![th].todo = call[th].res.start]
  /\ Goto(th, "h_start")
  /\ UNCHANGED <<txnVars, tmVars, tpVars, clock, timerVars, fsm_transitions, fsm_timers, fsm_async,
                 rthr_retryTimes, op, calls, fsm_lock, rthr_waiting,
                 rthr_now, rthr_cancelled, rthr_next, lockVars>>

\* hit: the next timer of start_timers is started and its pop time added
\* to the retry times; the retry thread is notified unless the time was
\* there already.
HitStart(th) ==
  /\ pc[th] = "h_start"
  /\ IF call[th].todo = <<>>
     THEN /\ Goto(th, "unlock")
          /\ UNCHANGED <<fsm_timers, rthr_retryTimes, call>>
     ELSE LET n == Head(call[th].todo)
              t2 == TmrStart(fsm_timers[n].t, clock)
              rts == IF fsm_async
                     THEN AddRetryTime(rthr_retryTimes, NextPopTime(t2))
                     ELSE rthr_retryTimes
          IN /\ fsm_timers' = [fsm_timers EXCEPT ![n].t = t2]
             /\ rthr_retryTimes' = rts
             /\ call' = [call EXCEPT ![th].todo = Tail(@)]
             /\ Goto(th, IF rts # rthr_retryTimes THEN "h_notify"
                         ELSE "h_start")
  /\ UNCHANGED <<txnVars, tmVars, tpVars, clock, timerVars, fsm_transitions, fsm_state, fsm_async,
                 op, calls, fsm_lock, rthr_waiting, rthr_now, rthr_cancelled, rthr_next, lockVars>>

\* addRetryTime: self._rthr_newWorkCondition.notify()
Notify(th) ==
  /\ pc[th] \in {"h_notify", "c_notify"}
  /\ rthr_waiting' = FALSE
  /\ Goto(th, IF pc[th] = "h_notify" THEN "h_start" ELSE "c_check")
  /\ UNCHANGED <<txnVars, tmVars, tpVars, clock, timerVars, fsmVars, call, calls, fsm_lock, rthr_now, rthr_cancelled, rthr_next, lockVars>>

\* checkTimers: the next timer is checked if it is running, and its pop
\* time added to the retry times.  A pop action of kind "hit" hits the FSM
\* from inside the check, taking the lock once more.
CheckStep(th) ==
  /\ pc[th] = "c_check"
  /\ IF call[th].todo = <<>>
     THEN /\ Goto(th, "unlock")
          /\ UNCHANGED <<fsm_state, fsm_timers, rthr_retryTimes, call>>
     ELSE LET n == Head(call[th].todo)
              t == fsm_timers[n].t
              due == clock >= t.alarmTime
              nested == fsm_timers[n].has /\ IsRunning(t) /\ due
                        /\ t.action = "hit"
              hit == FsmHit(fsm_transitions, fsm_state, fsm_timers,
                            rthr_retryTimes, fsm_async, clock, PopInput,
                            FALSE)
              chk == TmrCheck(t, clock)
              err == IF nested THEN hit.err ELSE chk.err
              timers ==
                IF nested
                THEN [hit.timers EXCEPT ![n].t = TmrSetNextPopTime(@)]
                ELSE [fsm_timers EXCEPT ![n].t = chk.tmr]
              rts == IF fsm_async
                     THEN AddRetryTime(IF nested THEN hit.rts
                                       ELSE rthr_retryTimes,
                                       NextPopTime(timers[n].t))
                     ELSE rthr_retryTimes
          IN
          IF ~(fsm_timers[n].has /\ IsRunning(t))
          THEN /\ call' = [call EXCEPT ![th].todo = Tail(@)]
               /\ Goto(th, "c_check")
               /\ UNCHANGED <<fsm_state, fsm_timers, rthr_retryTimes>>
          ELSE
            /\ nested /\ UsesLock(fsm_async) => CanAcquire(fsm_lock, th)
            /\ IF err # ""
               THEN /\ call' = [call EXCEPT ![th].err = err]
                    /\ Goto(th, "unlock")
                    /\ UNCHANGED <<fsm_state, fsm_timers, rthr_retryTimes>>
               ELSE /\ fsm_state' = IF nested THEN hit.state ELSE fsm_state
                    /\ fsm_timers' = timers
                    /\ rthr_retryTimes' = rts
                    /\ call' = [call EXCEPT ![th].todo = Tail(@)]
                    /\ Goto(th, IF rts # rthr_retryTimes THEN "c_notify"
                                ELSE "c_check")
  /\ UNCHANGED <<txnVars, tmVars, tpVars, clock, timerVars, fsm_transitions, fsm_async, op, calls,
                 fsm_lock, rthr_waiting, rthr_now, rthr_cancelled, rthr_next, lockVars>>

\* setState
SetStep(th) ==
  /\ pc[th] = "s_set"
  /\ IF IsKey(fsm_transitions, call[th].input)
     THEN fsm_state' = call[th].input /\ call' = call
     ELSE fsm_state' = fsm_state
          /\ call' = [call EXCEPT ![th].err = "TypeError"]
  /\ Goto(th, "unlock")
  /\ UNCHANGED <<txnVars, tmVars, tpVars, clock, timerVars, fsm_transitions, fsm_timers, fsm_async,
                 rthr_retryTimes, op, calls, fsm_lock, rthr_waiting,
                 rthr_now, rthr_cancelled, rthr_next, lockVars>>

\* maybeGetLock: the lock is released and the call returns or raises; an
\* exception that leaves the action ends the run of the retry thread.
Unlock(th) ==
  /\ pc[th] = "unlock"
  /\ fsm_lock' = IF UsesLock(fsm_async) THEN Released(fsm_lock) ELSE fsm_lock
  /\ Goto(th, IF th = "main" THEN "idle"
              ELSE IF call[th].err # "" THEN "r_dead" ELSE "r_del")
  /\ UNCHANGED <<txnVars, tmVars, tpVars, clock, timerVars, fsmVars, call, calls, rthr_waiting,
                 rthr_now, rthr_cancelled, rthr_next, lockVars>>

\* run: numrts = len(self._rthr_retryTimes)
RLen ==
  /\ pc["rthr"] = "r_len"
  /\ Goto("rthr", IF rthr_cancelled THEN "r_exit"
                  ELSE IF Len(rthr_retryTimes) = 0 THEN "r_wait"
                  ELSE "r_now")
  /\ UNCHANGED <<txnVars, tmVars, tpVars, clock, timerVars, fsmVars, call, calls, fsm_lock,
                 rthr_waiting, rthr_now, rthr_cancelled, rthr_next, lockVars>>

\* run: self._rthr_newWorkCondition.wait() begins, or wait(next - now)
RWait ==
  /\ pc["rthr"] \in {"r_wait", "r_twait"}
  /\ rthr_waiting' = TRUE
  /\ Goto("rthr", IF pc["rthr"] = "r_wait" THEN "r_blocked"
                  ELSE "r_tblocked")
  /\ UNCHANGED <<txnVars, tmVars, tpVars, clock, timerVars, fsmVars, call, calls, fsm_lock, rthr_now, rthr_cancelled, rthr_next, lockVars>>

\* run: wait() returns once the condition has been notified
RWake ==
  /\ pc["rthr"] = "r_blocked"
  /\ ~rthr_waiting
  /\ Goto("rthr", "r_len")
  /\ UNCHANGED <<txnVars, tmVars, tpVars, clock, timerVars, fsmVars, call, calls, fsm_lock,
                 rthr_waiting, rthr_now, rthr_cancelled, rthr_next, lockVars>>

\* run: wait(next - now) returns, notified or timed out
RTimedWake ==
  /\ pc["rthr"] = "r_tblocked"
  /\ rthr_waiting' = FALSE
  /\ Goto("rthr", "r_len")
  /\ UNCHANGED <<txnVars, tmVars, tpVars, clock, timerVars, fsmVars, call, calls, fsm_lock, rthr_now, rthr_cancelled, rthr_next, lockVars>>

\* run: now = self.Clock()
RNow ==
  /\ pc["rthr"] = "r_now"
  /\ rthr_now' = clock
  /\ Goto("rthr", "r_next")
  /\ UNCHANGED <<txnVars, tmVars, tpVars, clock, timerVars, fsmVars, call, calls, fsm_lock,
                 rthr_waiting, rthr_cancelled, rthr_next, lockVars>>

\* A run that fires whatever the next retry time is.
RNextFires ==
  /\ pc["rthr"] = "r_next"
  /\ rthr_next' = rthr_retryTimes[1]
  /\ Goto("rthr", "r_fire")
  /\ UNCHANGED <<txnVars, tmVars, tpVars, clock, timerVars, fsmVars, call, calls, fsm_lock,
                 rthr_waiting, rthr_now, rthr_cancelled, lockVars>>

\* run: next = self._rthr_retryTimes[0]; if next > now
RNext ==
  /\ pc["rthr"] = "r_next"
  /\ rthr_next' = rthr_retryTimes[1]
  /\ Goto("rthr", IF rthr_retryTimes[1] > rthr_now THEN "r_twait"
                  ELSE "r_fire")
  /\ UNCHANGED <<txnVars, tmVars, tpVars, clock, timerVars, fsmVars, call, calls, fsm_lock,
                 rthr_waiting, rthr_now, rthr_cancelled, lockVars>>

\* run: action(), which is checkTimers of the FSM
RFire ==
  /\ pc["rthr"] = "r_fire"
  /\ call' = [call EXCEPT !["rthr"] = [NoCall EXCEPT !.name = "checkTimers"]]
  /\ Goto("rthr", "lock")
  /\ UNCHANGED <<txnVars, tmVars, tpVars, clock, timerVars, fsmVars, calls, fsm_lock, rthr_waiting,
                 rthr_now, rthr_cancelled, rthr_next, lockVars>>

\* run: del self._rthr_retryTimes[0]
RDel ==
  /\ pc["rthr"] = "r_del"
  /\ rthr_retryTimes' = Tail(rthr_retryTimes)
  /\ Goto("rthr", "r_len")
  /\ UNCHANGED <<txnVars, tmVars, tpVars, clock, timerVars, fsm_transitions, fsm_state, fsm_timers,
                 fsm_async, op, call, calls, fsm_lock, rthr_waiting,
                 rthr_now, rthr_cancelled, rthr_next, lockVars>>

\* The statements of an FSM call in progress.
CallStep(th) ==
  \/ Lock(th)
  \/ HitAction(th)
  \/ HitStop(th)
  \/ HitState(th)
  \/ HitStart(th)
  \/ Notify(th)
  \/ CheckStep(th)
  \/ SetStep(th)
  \/ Unlock(th)

\* The statements of RetryThread.run.
RetryStep ==
  \/ RLen
  \/ RWait
  \/ RWake
  \/ RTimedWake
  \/ RNow
  \/ RNext
  \/ RFire
  \/ RDel
  \/ CallStep("rthr")

NextAsync ==
  \/ AsyncTick
  \/ \E i \in Inputs, raises \in BOOLEAN : MainCall("hit", i, raises)
  \/ MainCall("checkTimers", "", FALSE)
  \/ \E st \in States : MainCall("setState", st, FALSE)
  \/ CallStep("main")
  \/ RetryStep

SpecAsync == InitAsync /\ [][NextAsync]_vars

\* thread.cancel(), called by the owner of the thread
Cancel ==
  /\ pc["main"] = "idle"
  /\ ~rthr_cancelled
  /\ rthr_cancelled' = TRUE
  /\ rthr_waiting' = FALSE
  /\ UNCHANGED <<txnVars, tmVars, tpVars, clock, timerVars, fsmVars, pc, call, calls,
                 fsm_lock, rthr_now, rthr_next, lockVars>>

NextCancel ==
  \/ NextAsync
  \/ Cancel

\* The asynchronous FSM whose retry thread may be cancelled.
SpecCancel == InitAsync /\ [][NextCancel]_vars

\* Lists of two waits of which one at least is 0.
ZeroWaitRetryers ==
  { [gen |-> FALSE, waits |-> w, cap |-> 0] :
      w \in {<<0, 0>>, <<0, 1>>, <<1, 0>>} }

\* The asynchronous FSM whose timer has a wait of 0.
InitAsyncZero == AsyncInit(ZeroWaitRetryers)

SpecAsyncZero == InitAsyncZero /\ [][NextAsync]_vars

\* The timers of an FSM that has two.
PairNames == {"retry", "giveup"}

\* The table of that FSM: one transition starts both timers, another
\* stops both.
PairCalls ==
  << Trans("initial", "start", "starting", "none", <<"retry", "giveup">>,
           <<>>),
     Trans("starting", "start", "starting", "none", <<"retry">>, <<>>),
     Trans("starting", "start_done", "running", "none", <<>>,
           <<"retry", "giveup">>) >>

\* The asynchronous FSM with two timers on the same waits.
InitPair ==
  /\ clock = 0
  /\ TimerFresh
  /\ TxnFresh
  /\ TmFresh
  /\ TpFresh
  /\ ThreadsStarted
  /\ LET timers == [n \in PairNames |->
                      [has |-> TRUE, t |-> NewTimer(RetryerOf(n), "count")]]
         built == BuildTable(PairCalls,
                             [s \in States |-> [i \in Inputs |-> NoEntry]],
                             NoState, timers)
     IN /\ fsm_timers = timers
        /\ fsm_transitions = built.table
        /\ fsm_state = built.state
  /\ fsm_async = TRUE
  /\ rthr_retryTimes = <<>>
  /\ op = NoOp

SpecPair == InitPair /\ [][NextAsync]_vars

\* ------------------------------------------------------------------------
\* SpecLocks: the asynchronous FSM with every acquisition and release of
\* the list lock and of the lock of the condition a step of its own.  The
\* FSM lock and the statements of hit and setState are those of SpecAsync.

\* A with block that never releases its lock.
WithExitKeeps(owner) == owner

\* The lock of a with block once the block is left.
WithExit(owner) == "free"

\* The statement an addRetryTime call returns to.
AddReturn(th) == IF call[th].name = "hit" THEN "h_start" ELSE "c_check"

\* hit: the next timer of start_timers is started; addRetryTime is called
\* with its pop time.
LkStart(th) ==
  /\ pc[th] = "h_start"
  /\ IF call[th].todo = <<>>
     THEN /\ Goto(th, "unlock")
          /\ UNCHANGED fsm_timers
     ELSE LET n == Head(call[th].todo) IN
          /\ fsm_timers' = [fsm_timers EXCEPT
                              ![n].t = TmrStart(fsm_timers[n].t, clock)]
          /\ Goto(th, "a_lock")
  /\ UNCHANGED <<txnVars, tmVars, tpVars, clock, timerVars, fsm_transitions,
                 fsm_state, fsm_async, rthr_retryTimes, op, call, calls,
                 fsm_lock, rthr_waiting, rthr_now, rthr_cancelled, rthr_next,
                 lockVars>>

\* checkTimers: the next timer is checked if it is running; addRetryTime
\* is called with its pop time.  A pop action of kind "hit" takes the FSM
\* lock once more; its transition starts no timer.
LkCheck(th) ==
  /\ pc[th] = "c_check"
  /\ IF call[th].todo = <<>>
     THEN /\ Goto(th, "unlock")
          /\ UNCHANGED <<fsm_state, fsm_timers, call>>
     ELSE LET n == Head(call[th].todo)
              t == fsm_timers[n].t
              due == clock >= t.alarmTime
              nested == fsm_timers[n].has /\ IsRunning(t) /\ due
                        /\ t.action = "hit"
              hit == FsmHit(fsm_transitions, fsm_state, fsm_timers,
                            rthr_retryTimes, fsm_async, clock, PopInput,
                            FALSE)
              chk == TmrCheck(t, clock)
              err == IF nested THEN hit.err ELSE chk.err
              timers ==
                IF nested
                THEN [hit.timers EXCEPT ![n].t = TmrSetNextPopTime(@)]
                ELSE [fsm_timers EXCEPT ![n].t = chk.tmr]
          IN
          IF ~(fsm_timers[n].has /\ IsRunning(t))
          THEN /\ call' = [call EXCEPT ![th].todo = Tail(@)]
               /\ Goto(th, "c_check")
               /\ UNCHANGED <<fsm_state, fsm_timers>>
          ELSE
            /\ nested /\ UsesLock(fsm_async) => CanAcquire(fsm_lock, th)
            /\ IF err # ""
               THEN /\ call' = [call EXCEPT ![th].err = err]
                    /\ Goto(th, "unlock")
                    /\ UNCHANGED <<fsm_state, fsm_timers>>
               ELSE /\ fsm_state' = IF nested THEN hit.state ELSE fsm_state
                    /\ fsm_timers' = timers
                    /\ call' = call
                    /\ Goto(th, "a_lock")
  /\ UNCHANGED <<txnVars, tmVars, tpVars, clock, timerVars, fsm_transitions,
                 fsm_async, rthr_retryTimes, op, calls, fsm_lock,
                 rthr_waiting, rthr_now, rthr_cancelled, rthr_next,
                 lockVars>>

\* addRetryTime: with self._rthr_nextTimesLock
AddLock(th) ==
  /\ pc[th] = "a_lock"
  /\ rthr_nextTimesLock = "free"
  /\ rthr_nextTimesLock' = th
  /\ Goto(th, "a_insert")
  /\ UNCHANGED <<txnVars, tmVars, tpVars, clock, timerVars, fsmVars, call,
                 calls, fsm_lock, rthr_waiting, rthr_now, rthr_cancelled,
                 rthr_next, rthr_newWorkCondition>>

\* addRetryTime: the time is inserted unless it is there, and the lock
\* released; the call returns at once when the time was there.
AddInsert(th) ==
  /\ pc[th] = "a_insert"
  /\ LET n == Head(call[th].todo)
         rts == AddRetryTime(rthr_retryTimes, NextPopTime(fsm_timers[n].t))
     IN /\ rthr_retryTimes' = rts
        /\ Goto(th, IF rts # rthr_retryTimes THEN "a_cond"
                    ELSE AddReturn(th))
  /\ rthr_nextTimesLock' = WithExit(rthr_nextTimesLock)
  /\ call' = [call EXCEPT ![th].todo = Tail(@)]
  /\ UNCHANGED <<txnVars, tmVars, tpVars, clock, timerVars, fsm_transitions,
                 fsm_state, fsm_timers, fsm_async, op, calls, fsm_lock,
                 rthr_waiting, rthr_now, rthr_cancelled, rthr_next,
                 rthr_newWorkCondition>>

\* addRetryTime: with self._rthr_newWorkCondition
AddCond(th) ==
  /\ pc[th] = "a_cond"
  /\ rthr_newWorkCondition = "free"
  /\ rthr_newWorkCondition' = th
  /\ Goto(th, "a_notify")
  /\ UNCHANGED <<txnVars, tmVars, tpVars, clock, timerVars, fsmVars, call,
                 calls, fsm_lock, rthr_waiting, rthr_now, rthr_cancelled,
                 rthr_next, rthr_nextTimesLock>>

\* addRetryTime: self._rthr_newWorkCondition.notify(), and the lock of the
\* condition is released
AddNotify(th) ==
  /\ pc[th] = "a_notify"
  /\ rthr_waiting' = FALSE
  /\ rthr_newWorkCondition' = WithExit(rthr_newWorkCondition)
  /\ Goto(th, AddReturn(th))
  /\ UNCHANGED <<txnVars, tmVars, tpVars, clock, timerVars, fsmVars, call,
                 calls, fsm_lock, rthr_now, rthr_cancelled, rthr_next,
                 rthr_nextTimesLock>>

\* run: while not self._rthr_cancelled; with self._rthr_nextTimesLock
RLenLock ==
  /\ pc["rthr"] = "r_len"
  /\ IF rthr_cancelled
     THEN /\ Goto("rthr", "r_exit")
          /\ UNCHANGED rthr_nextTimesLock
     ELSE /\ rthr_nextTimesLock = "free"
          /\ rthr_nextTimesLock' = "rthr"
          /\ Goto("rthr", "r_len2")
  /\ UNCHANGED <<txnVars, tmVars, tpVars, clock, timerVars, fsmVars, call,
                 calls, fsm_lock, rthr_waiting, rthr_now, rthr_cancelled,
                 rthr_next, rthr_newWorkCondition>>

\* run: numrts = len(self._rthr_retryTimes), and the lock is released
RLenRead ==
  /\ pc["rthr"] = "r_len2"
  /\ rthr_nextTimesLock' = WithExit(rthr_nextTimesLock)
  /\ Goto("rthr", IF Len(rthr_retryTimes) = 0 THEN "r_wait" ELSE "r_now")
  /\ UNCHANGED <<txnVars, tmVars, tpVars, clock, timerVars, fsmVars, call,
                 calls, fsm_lock, rthr_waiting, rthr_now, rthr_cancelled,
                 rthr_next, rthr_newWorkCondition>>

\* run: with self._rthr_newWorkCondition, before either wait
RWaitLock ==
  /\ pc["rthr"] \in {"r_wait", "r_twait"}
  /\ rthr_newWorkCondition = "free"
  /\ rthr_newWorkCondition' = "rthr"
  /\ Goto("rthr", IF pc["rthr"] = "r_wait" THEN "r_wait2" ELSE "r_twait2")
  /\ UNCHANGED <<txnVars, tmVars, tpVars, clock, timerVars, fsmVars, call,
                 calls, fsm_lock, rthr_waiting, rthr_now, rthr_cancelled,
                 rthr_next, rthr_nextTimesLock>>

\* run: wait() or wait(next - now) begins; the condition gives its lock
\* up while the thread waits.
RWaitBegin ==
  /\ pc["rthr"] \in {"r_wait2", "r_twait2"}
  /\ rthr_waiting' = TRUE
  /\ rthr_newWorkCondition' = "free"
  /\ Goto("rthr", IF pc["rthr"] = "r_wait2" THEN "r_blocked"
                  ELSE "r_tblocked")
  /\ UNCHANGED <<txnVars, tmVars, tpVars, clock, timerVars, fsmVars, call,
                 calls, fsm_lock, rthr_now, rthr_cancelled, rthr_next,
                 rthr_nextTimesLock>>

\* run: the wait ends, notified or, for wait(next - now), timed out, and
\* takes the lock of the condition again before it returns.
RWakeLock ==
  /\ \/ pc["rthr"] = "r_blocked" /\ ~rthr_waiting
     \/ pc["rthr"] = "r_tblocked"
  /\ rthr_newWorkCondition = "free"
  /\ rthr_newWorkCondition' = "rthr"
  /\ rthr_waiting' = FALSE
  /\ Goto("rthr", "r_woken")
  /\ UNCHANGED <<txnVars, tmVars, tpVars, clock, timerVars, fsmVars, call,
                 calls, fsm_lock, rthr_now, rthr_cancelled, rthr_next,
                 rthr_nextTimesLock>>

\* run: the with block of the wait is left; continue
RWoken ==
  /\ pc["rthr"] = "r_woken"
  /\ rthr_newWorkCondition' = WithExit(rthr_newWorkCondition)
  /\ Goto("rthr", "r_len")
  /\ UNCHANGED <<txnVars, tmVars, tpVars, clock, timerVars, fsmVars, call,
                 calls, fsm_lock, rthr_waiting, rthr_now, rthr_cancelled,
                 rthr_next, rthr_nextTimesLock>>

\* run: with self._rthr_nextTimesLock, before the next time is read
RNextLock ==
  /\ pc["rthr"] = "r_next"
  /\ rthr_nextTimesLock = "free"
  /\ rthr_nextTimesLock' = "rthr"
  /\ Goto("rthr", "r_next2")
  /\ UNCHANGED <<txnVars, tmVars, tpVars, clock, timerVars, fsmVars, call,
                 calls, fsm_lock, rthr_waiting, rthr_now, rthr_cancelled,
                 rthr_next, rthr_newWorkCondition>>

\* run: next = self._rthr_retryTimes[0], and the lock is released; if
\* next > now
RNextRead ==
  /\ pc["rthr"] = "r_next2"
  /\ rthr_next' = rthr_retryTimes[1]
  /\ rthr_nextTimesLock' = WithExit(rthr_nextTimesLock)
  /\ Goto("rthr", IF rthr_retryTimes[1] > rthr_now THEN "r_twait"
                  ELSE "r_fire")
  /\ UNCHANGED <<txnVars, tmVars, tpVars, clock, timerVars, fsmVars, call,
                 calls, fsm_lock, rthr_waiting, rthr_now, rthr_cancelled,
                 rthr_newWorkCondition>>

\* run: with self._rthr_nextTimesLock, before the del
RDelLock ==
  /\ pc["rthr"] = "r_del"
  /\ rthr_nextTimesLock = "free"
  /\ rthr_nextTimesLock' = "rthr"
  /\ Goto("rthr", "r_del2")
  /\ UNCHANGED <<txnVars, tmVars, tpVars, clock, timerVars, fsmVars, call,
                 calls, fsm_lock, rthr_waiting, rthr_now, rthr_cancelled,
                 rthr_next, rthr_newWorkCondition>>

\* run: del self._rthr_retryTimes[0], and the lock is released
RDelDone ==
  /\ pc["rthr"] = "r_del2"
  /\ rthr_retryTimes' = Tail(rthr_retryTimes)
  /\ rthr_nextTimesLock' = WithExit(rthr_nextTimesLock)
  /\ Goto("rthr", "r_len")
  /\ UNCHANGED <<txnVars, tmVars, tpVars, clock, timerVars, fsm_transitions,
                 fsm_state, fsm_timers, fsm_async, op, call, calls, fsm_lock,
                 rthr_waiting, rthr_now, rthr_cancelled, rthr_next,
                 rthr_newWorkCondition>>

\* The statements of an FSM call in progress, lock by lock.
LkCallStep(th) ==
  \/ Lock(th)
  \/ HitAction(th)
  \/ HitStop(th)
  \/ HitState(th)
  \/ LkStart(th)
  \/ LkCheck(th)
  \/ AddLock(th)
  \/ AddInsert(th)
  \/ AddCond(th)
  \/ AddNotify(th)
  \/ SetStep(th)
  \/ Unlock(th)

\* The statements of RetryThread.run, lock by lock.
LkRetryStep ==
  \/ RLenLock
  \/ RLenRead
  \/ RWaitLock
  \/ RWaitBegin
  \/ RWakeLock
  \/ RWoken
  \/ RNow
  \/ RNextLock
  \/ RNextRead
  \/ RFire
  \/ RDelLock
  \/ RDelDone
  \/ LkCallStep("rthr")

NextLocks ==
  \/ AsyncTick
  \/ \E i \in Inputs, raises \in BOOLEAN : MainCall("hit", i, raises)
  \/ MainCall("checkTimers", "", FALSE)
  \/ \E st \in States : MainCall("setState", st, FALSE)
  \/ LkCallStep("main")
  \/ LkRetryStep

SpecLocks == InitAsync /\ [][NextLocks]_vars

\* Both threads are scheduled fairly; the caller need not call again and
\* the clock need not advance.
FairSpecAsync ==
  SpecAsync /\ WF_vars(CallStep("main")) /\ WF_vars(RetryStep)

\* SpecCancel with both threads scheduled fairly.
FairSpecCancel ==
  SpecCancel /\ WF_vars(CallStep("main")) /\ WF_vars(RetryStep)

\* ------------------------------------------------------------------------
\* SpecTxn: one non-INVITE client transaction, its two timers and the
\* clock.  The timers are checked by the retry thread of the transaction,
\* one checkTimers call at a time.

InitTxn ==
  /\ clock = 0
  /\ TimerFresh
  /\ FsmFresh(FALSE)
  /\ ThreadsFresh
  /\ TxnFresh
  /\ TmFresh
  /\ TpFresh

\* No running timer of the transaction is due.
TxnQuiescent ==
  \A n \in TxnTimerNames :
    IsRunning(txn_timers[n]) => clock < txn_timers[n].alarmTime

TxnTick ==
  /\ clock < MaxTxnClock
  /\ clock' = clock + TxnStep
  /\ txn_late' = (txn_late \/ ~TxnQuiescent)
  /\ UNCHANGED <<timerVars, fsmVars, asyncVars, tmVars, tpVars, txn_state, txn_timers,
                 txn_request, txn_sent, txn_t0, txn_tu, txn_wait, txn_in>>

\* transport.send_message(msg)
Sent(sent, msg) == Append(sent, msg)

\* non_inv_trans.hit('request', msg): the request is sent and both timers
\* are started.
TxnRequest(msg) ==
  /\ txn_state = "initial"
  /\ txn_state' = "trying"
  /\ txn_request' = msg
  /\ txn_sent' = Sent(txn_sent, msg)
  /\ txn_t0' = clock
  /\ txn_timers' = [n \in TxnTimerNames |-> TmrStart(txn_timers[n], clock)]
  /\ UNCHANGED <<clock, timerVars, fsmVars, asyncVars, tmVars, tpVars, txn_tu, txn_late,
                 txn_wait, txn_in>>

\* The transaction after one timer has been checked: a retransmission pop
\* sends the request again; a give-up pop terminates the transaction,
\* stops the retransmission and tells the transaction user.
TxnCheckOne(st, name, now) ==
  LET t == st.timers[name] IN
  IF ~IsRunning(t) THEN st
  ELSE LET res == TmrCheck(t, now)
           timers == [st.timers EXCEPT ![name] = res.tmr]
       IN IF ~res.popped THEN st
          ELSE IF name = "retransmit"
          THEN [st EXCEPT !.timers = timers,
                          !.sent = Sent(st.sent, st.request)]
          ELSE [st EXCEPT
                  !.timers = [timers EXCEPT
                                !["retransmit"] = TmrStop(@)],
                  !.state = "terminated",
                  !.tu = Append(st.tu, "timeout")]

\* checkTimers of the transaction, visiting the timers in some order.
TxnCheckTimers(first) ==
  LET st0 == [state |-> txn_state, timers |-> txn_timers,
              request |-> txn_request, sent |-> txn_sent, tu |-> txn_tu]
      second == CHOOSE n \in TxnTimerNames : n # first
      st2 == TxnCheckOne(TxnCheckOne(st0, first, clock), second, clock)
  IN
  /\ txn_state # "initial"
  /\ ~TxnQuiescent
  /\ txn_state' = st2.state
  /\ txn_timers' = st2.timers
  /\ txn_sent' = st2.sent
  /\ txn_tu' = st2.tu
  /\ UNCHANGED <<clock, timerVars, fsmVars, asyncVars, tmVars, tpVars, txn_request, txn_t0,
                 txn_late, txn_wait, txn_in>>

NextTxn ==
  \/ TxnTick
  \/ \E m \in Msgs : TxnRequest(m)
  \/ \E n \in TxnTimerNames : TxnCheckTimers(n)

SpecTxn == InitTxn /\ [][NextTxn]_vars

\* ------------------------------------------------------------------------
\* The transaction with inputs delivered to it (SpecTxnResp).

\* The inputs the transaction layer delivers to a transaction.
TxnDelivered == {"response", "request"}

\* The states that are the old_state of a transition of the transaction.
TxnOldStates == {"initial", "trying", "proceeding", "completed"}

\* The inputs with a transition in a state.
TxnInputsOf(state) ==
  CASE state = "initial" -> {"request"}
    [] state \in {"trying", "proceeding"} ->
         {"retransmit", "giveup", "response"}
    [] state = "completed" -> {"response", "completed_wait"}
    [] OTHER -> {}

\* FSM.hit: the exception the lookup of the transition raises.
TxnHitErr(state, input) ==
  IF state \notin TxnOldStates THEN "KeyError"
  ELSE IF input \notin TxnInputsOf(state) THEN "UnexpectedInput"
  ELSE ""

\* The transaction layer logs and drops an unexpected input.
TxnCaught(err) == IF err = "UnexpectedInput" THEN "" ELSE err

\* The clock of the transaction test goes on once the request is made.
TxnRespTick ==
  /\ txn_state # "initial"
  /\ TxnTick

\* An input is delivered to the transaction: a response in trying or
\* proceeding completes it, stops its timers and starts the wait; a
\* response in completed is absorbed.
TxnDeliver(input) ==
  LET err == TxnHitErr(txn_state, input) IN
  /\ txn_in.n < MaxDelivers
  /\ ~(txn_state = "initial" /\ input = "request")
  /\ txn_in' = [n |-> txn_in.n + 1, input |-> input, from |-> txn_state,
                hit |-> err, err |-> TxnCaught(err)]
  /\ IF err = "" /\ txn_state \in {"trying", "proceeding"}
     THEN /\ txn_state' = "completed"
          /\ txn_timers' = [n \in TxnTimerNames |-> TmrStop(txn_timers[n])]
          /\ txn_wait' = TmrStart(txn_wait, clock)
          /\ txn_tu' = Append(txn_tu, "response")
     ELSE UNCHANGED <<txn_state, txn_timers, txn_wait, txn_tu>>
  /\ UNCHANGED <<clock, timerVars, fsmVars, asyncVars, tmVars, tpVars, txn_request, txn_sent,
                 txn_t0, txn_late>>

\* checkTimers in state completed: the pop of the wait terminates the
\* transaction.
TxnCheckWait ==
  LET res == TmrCheck(txn_wait, clock) IN
  /\ txn_state = "completed"
  /\ IsRunning(txn_wait)
  /\ res.popped
  /\ txn_wait' = res.tmr
  /\ txn_state' = "terminated"
  /\ UNCHANGED <<clock, timerVars, fsmVars, asyncVars, tmVars, tpVars, txn_timers,
                 txn_request, txn_sent, txn_t0, txn_tu, txn_late, txn_in>>

NextTxnResp ==
  \/ TxnRespTick
  \/ \E m \in Msgs : TxnRequest(m)
  \/ \E n \in TxnTimerNames : TxnCheckTimers(n)
  \/ \E i \in TxnDelivered : TxnDeliver(i)
  \/ TxnCheckWait

SpecTxnResp == InitTxn /\ [][NextTxnResp]_vars

\* ------------------------------------------------------------------------
\* SpecTransport: one caller making the blocking calls of a TransportFSM
\* while other threads hit it.

InitTp ==
  /\ clock = 0
  /\ TimerFresh
  /\ FsmFresh(FALSE)
  /\ ThreadsFresh
  /\ TxnFresh
  /\ TmFresh
  /\ TpFresh

TpRest == <<timerVars, fsmVars, asyncVars, txnVars, tmVars>>

\* transport.listen(), connect(), disconnect() or reset() is called.
TpCall(name) ==
  /\ tp_call.pc = "idle"
  /\ tp_calls < MaxTpCalls
  /\ tp_calls' = tp_calls + 1
  /\ tp_call' = [NoTpCall EXCEPT !.name = name, !.pc = "method"]
  /\ UNCHANGED <<clock, tp_state, tp_hits, TpRest>>

\* wrapper: method(self, *args, **kwargs), which hits the FSM; then
\* end_states = states, time_start = time_now = Clock()
TpMethod(raises) ==
  /\ tp_call.pc = "method"
  /\ LET r == TpHit(tp_state, TpInputOf(tp_call.name), raises) IN
     /\ tp_state' = r.state
     /\ tp_call' =
          IF r.err # ""
          THEN [tp_call EXCEPT !.pc = "idle", !.out = "raised"]
          ELSE [tp_call EXCEPT !.pc = "loop",
                               !.end = TpEndStates(tp_call.name),
                               !.start = clock, !.now = clock, !.t0 = clock]
  /\ UNCHANGED <<clock, tp_calls, tp_hits, TpRest>>

\* wrapper: while self.state not in end_states
TpLoopTest ==
  /\ tp_call.pc = "loop"
  /\ tp_call' = [tp_call EXCEPT !.pc = IF TpInEnd(tp_state, tp_call.end)
                                       THEN "final" ELSE "body"]
  /\ UNCHANGED <<clock, tp_state, tp_calls, tp_hits, TpRest>>

\* wrapper: if time_now - time_start > self._tfsm_timeout, the FSM is hit
\* with the error input and only the error state is waited for
TpBody(raises) ==
  /\ tp_call.pc = "body"
  /\ IF tp_call.now - tp_call.start > TpTimeout
     THEN LET r == TpHit(tp_state, "error", raises) IN
          /\ tp_state' = r.state
          /\ tp_call' =
               IF r.err # "" \/ tp_call.end = TpNewEndStates
               THEN [tp_call EXCEPT !.pc = "idle", !.out = "raised"]
               ELSE [tp_call EXCEPT !.pc = "sleep", !.end = TpNewEndStates,
                                    !.start = tp_call.now, !.esc = @ + 1]
     ELSE /\ tp_call' = [tp_call EXCEPT !.pc = "sleep"]
          /\ tp_state' = tp_state
  /\ UNCHANGED <<clock, tp_calls, tp_hits, TpRest>>

\* wrapper: time.sleep(0.00001); time_now = Clock()
TpSleep ==
  /\ tp_call.pc = "sleep"
  /\ clock' = clock + 1
  /\ tp_call' = [tp_call EXCEPT !.pc = "loop", !.now = clock + 1]
  /\ UNCHANGED <<tp_state, tp_calls, tp_hits, TpRest>>

\* wrapper: if self.state not in end_states: raise; else the call returns
TpFinal ==
  /\ tp_call.pc = "final"
  /\ tp_call' = [tp_call EXCEPT
                   !.pc = "idle",
                   !.out = IF TpInEnd(tp_state, tp_call.end)
                           THEN "returned" ELSE "raised"]
  /\ UNCHANGED <<clock, tp_state, tp_calls, tp_hits, TpRest>>

\* Another thread (attemptConnect, startListening, the socket's reader or
\* another caller) hits the FSM with an input that has a transition.
TpOtherHit(input) ==
  /\ tp_hits < MaxTpHits
  /\ TpHit(tp_state, input, FALSE).err = ""
  /\ tp_state' = TpHit(tp_state, input, FALSE).state
  /\ tp_hits' = tp_hits + 1
  /\ UNCHANGED <<clock, tp_call, tp_calls, TpRest>>

\* The statements of the blocking call in progress.
TpStep ==
  \/ \E raises \in BOOLEAN : TpMethod(raises)
  \/ TpLoopTest
  \/ \E raises \in BOOLEAN : TpBody(raises)
  \/ TpSleep
  \/ TpFinal

NextTp ==
  \/ \E name \in TpMethods : TpCall(name)
  \/ TpStep
  \/ \E input \in TpInputs \ {"send"} : TpOtherHit(input)

SpecTransport == InitTp /\ [][NextTp]_vars

\* The caller's thread is scheduled fairly.
FairSpecTransport == SpecTransport /\ WF_vars(TpStep)

\* ------------------------------------------------------------------------
\* Properties of the FSM (Spec).

\* The step is a call of the FSM method called name.
Called(name) == clock' = clock /\ op'.name = name

\* C1: hit(i) from a state S moves to the new_state registered for (S, i),
\* or, exactly when none is registered, fails with UnexpectedInput and
\* leaves the state and the timers as they are; an error of the action
\* aside, it fails in no other way.  Transitions whose addTransition call
\* failed half-way are left aside.
C1_HitMovesOrUnexpected ==
  [][(Called("hit") /\ fsm_state \in States /\ op'.err # "ActionError"
        /\ \A s \in States, i \in Inputs :
             fsm_transitions[s][i].present => fsm_transitions[s][i].hasStop)
     =>
       LET e == fsm_transitions[fsm_state][op'.input] IN
       IF e.present
       THEN op'.err = "" /\ fsm_state' = e.new
       ELSE /\ op'.err = "UnexpectedInput"
            /\ fsm_state' = fsm_state
            /\ fsm_timers' = fsm_timers]_vars

\* C2: when the action of a transition raises, hit passes the error on and
\* leaves the state, the timers and the retry times as before the call, in
\* synchronous and in asynchronous mode, so that hitting again with the same
\* input is not an unexpected input.
C2_ActionFailureLeavesFsm ==
  [][(Called("hit") /\ op'.err = "ActionError") =>
       LET ra == FsmHit(fsm_transitions, fsm_state, fsm_timers,
                        rthr_retryTimes, TRUE, clock, op'.input, TRUE)
           again == FsmHit(fsm_transitions', fsm_state', fsm_timers',
                           rthr_retryTimes', fsm_async, clock, op'.input,
                           FALSE)
       IN /\ op'.acted
          /\ fsm_state' = fsm_state
          /\ fsm_timers' = fsm_timers
          /\ rthr_retryTimes' = rthr_retryTimes
          /\ ra.err = "ActionError" /\ ra.state = fsm_state
          /\ ra.timers = fsm_timers /\ ra.rts = rthr_retryTimes
          /\ again.err # "UnexpectedInput"]_vars

\* The action of the transition that stops the running retry timer has
\* just raised.
C2_Witness ==
  /\ op.name = "hit" /\ op.err = "ActionError" /\ op.acted
  /\ op.from = "starting" /\ op.input = "start_done"
  /\ fsm_state = "starting"
  /\ fsm_transitions["starting"]["start_done"].stop = <<"retry">>
  /\ IsRunning(fsm_timers["retry"].t)

\* C3: addTransition for an (old_state, input) pair that already has a
\* transition fails with ValueError and leaves the table, with the first
\* transition, and the state as they are.
C3_DuplicateTransitionRejected ==
  [][(Called("addTransition")
        /\ fsm_transitions[op'.from][op'.input].present) =>
       /\ op'.err = "ValueError"
       /\ fsm_transitions' = fsm_transitions
       /\ fsm_state' = fsm_state]_vars

\* A transition to another new_state was refused for a pair that kept its
\* first transition; both orders of the two occur.
C3_Witness ==
  /\ op.name = "addTransition" /\ op.err = "ValueError"
  /\ op.from = "initial" /\ op.input = "start" /\ op.new = "starting"
  /\ fsm_transitions["initial"]["start"].present
  /\ fsm_transitions["initial"]["start"].new = "running"

\* ------------------------------------------------------------------------
\* Properties of the asynchronous FSM (SpecAsync, FairSpecAsync).

RetryTimer == fsm_timers["retry"].t

\* The retry timer is running and its pop time has come.
Due == IsRunning(RetryTimer) /\ clock >= RetryTimer.alarmTime

\* C7: once the clock has reached the pop time of a timer that a hit
\* started, the retry thread pops it (unless a hit stops or restarts it
\* first), whatever the interleaving of the caller's hits with the retry
\* thread; the timer's action only counts.
C7_DueTimerPops ==
  (RetryTimer.action = "count" /\ Due) ~> ~Due

\* The thread is inside hit, setState or checkTimers.
InBody(th) ==
  pc[th] \in {"h_action", "h_stop", "h_state", "h_start", "h_notify",
              "c_check", "c_notify", "s_set", "unlock"}

\* The thread is about to pop a timer whose action hits the FSM.
AboutToHitFromPop(th) ==
  /\ pc[th] = "c_check"
  /\ call[th].todo # <<>>
  /\ RetryTimer.action = "hit"
  /\ Due

\* C8: in asynchronous mode the caller's hit/setState/checkTimers and the
\* retry thread's checkTimers never run at the same time, each runs under
\* the FSM lock, and a pop action that hits the FSM from the thread that
\* holds the lock is not kept waiting.
C8_CallsSerialized ==
  /\ ~(InBody("main") /\ InBody("rthr"))
  /\ \A th \in Threads : InBody(th) => fsm_lock.owner = th
  /\ \A th \in Threads : AboutToHitFromPop(th) => CanAcquire(fsm_lock, th)

\* The retry thread has popped the timer, whose action hit the FSM and
\* moved it to "initial", while the caller waits for the lock with a hit.
C8_Witness ==
  /\ pc["main"] = "lock" /\ call["main"].name = "hit"
  /\ pc["rthr"] = "c_notify" /\ fsm_lock.owner = "rthr"
  /\ RetryTimer.action = "hit"
  /\ fsm_state = "initial" /\ ~IsRunning(RetryTimer)

\* The elements of a sequence.
Range(seq) == {seq[i] : i \in 1..Len(seq)}

\* The step is made by thread th inside its call.
Steps(th) == pc'[th] # pc[th] \/ call'[th] # call[th]

\* C22: when the action the retry thread invoked has raised, the thread
\* goes on to remove the entry it fired and keeps running.
C22_WorkerSurvivesAction ==
  [][(pc["rthr"] = "unlock" /\ call["rthr"].err # "" /\ Steps("rthr"))
       => pc'["rthr"] = "r_del"]_vars

\* C23: once the retry thread has been cancelled the retry times change
\* only by the thread removing the entry it has fired.
C23_CancelledRejectsDeadlines ==
  [][rthr_cancelled =>
       (\/ rthr_retryTimes' = rthr_retryTimes
        \/ (pc["rthr"] = "r_del" /\ rthr_retryTimes' = Tail(rthr_retryTimes)))
    ]_vars

\* C25: a transition with the timer in stop_timers stops it; a stopped
\* timer is popped by no checkTimers, of the caller or of the retry
\* thread, whatever the clock; and only the start of a timer of
\* start_timers makes it run again.
C25_StoppedTimerSilent ==
  /\ [][\A th \in Threads :
          (pc[th] = "h_stop" /\ Steps(th)
           /\ "retry" \in Range(call[th].res.stop))
            => ~IsRunning(fsm_timers'["retry"].t)]_vars
  /\ [][((\E th \in Threads : pc[th] = "c_check") /\ ~IsRunning(RetryTimer))
          => (fsm_timers' = fsm_timers /\ fsm_state' = fsm_state)]_vars
  /\ [][(~IsRunning(RetryTimer) /\ IsRunning(fsm_timers'["retry"].t))
          => \E th \in Threads :
               /\ pc[th] = "h_start" /\ Steps(th)
               /\ call[th].todo # <<>> /\ Head(call[th].todo) = "retry"]_vars

\* The retry thread has checked the timers after the pop time of a timer
\* that start_done stopped, and nothing popped.
C25_Witness ==
  /\ pc["rthr"] = "c_check" /\ call["rthr"].todo = <<>>
  /\ fsm_state = "running" /\ ~IsRunning(RetryTimer)
  /\ rthr_now >= 1 /\ rthr_retryTimes # <<>> /\ rthr_retryTimes[1] <= rthr_now

\* C27: hit runs the action first, leaving state and timers as they
\* were, then stops the timers of stop_timers, then changes the state,
\* then starts the timers of start_timers, each on a fresh sequence at
\* the clock of the call, and hands its pop time to the retry thread; on
\* return the state is new_state, a timer of start_timers runs and a
\* timer only in stop_timers does not.
C27_HitStepOrder ==
  /\ [][\A th \in Threads :
          (pc[th] = "h_action" /\ Steps(th)) =>
            (fsm_state' = fsm_state /\ fsm_timers' = fsm_timers)]_vars
  /\ [][\A th \in Threads :
          (pc[th] = "h_stop" /\ Steps(th)) =>
            /\ fsm_state' = fsm_state
            /\ \A n \in TimerNames :
                 IF n \in Range(call[th].res.stop)
                 THEN ~IsRunning(fsm_timers'[n].t)
                 ELSE fsm_timers'[n] = fsm_timers[n]]_vars
  /\ [][\A th \in Threads :
          (pc[th] = "h_state" /\ Steps(th)) =>
            (fsm_state' = call[th].res.new /\ fsm_timers' = fsm_timers)]_vars
  /\ [][\A th \in Threads :
          (pc[th] = "h_start" /\ Steps(th) /\ call[th].todo # <<>>) =>
            LET n == Head(call[th].todo)
                t == fsm_timers'[n].t
            IN /\ fsm_state' = fsm_state
               /\ IsRunning(t) /\ t.startTime = clock
               /\ t.iter = IterAdvance([t EXCEPT !.iter = FreshIter(t)])
               /\ NextPopTime(t) \in Range(rthr_retryTimes')
               /\ \A m \in TimerNames \ {n} :
                    fsm_timers'[m] = fsm_timers[m]]_vars
  /\ [](\A th \in Threads :
          (pc[th] = "unlock" /\ call[th].name = "hit" /\ call[th].err = "")
            => /\ fsm_state = call[th].res.new
               /\ \A n \in TimerNames :
                    IF n \in Range(call[th].res.start)
                    THEN IsRunning(fsm_timers[n].t)
                    ELSE IF n \in Range(call[th].res.stop)
                    THEN ~IsRunning(fsm_timers[n].t)
                    ELSE TRUE)

\* A hit has returned from a transition that names the running timer in
\* both lists: the timer runs, started at the clock of the hit.
C27_Witness ==
  /\ pc["main"] = "unlock" /\ call["main"].name = "hit"
  /\ call["main"].err = ""
  /\ "retry" \in Range(call["main"].res.start)
  /\ "retry" \in Range(call["main"].res.stop)
  /\ IsRunning(RetryTimer) /\ RetryTimer.startTime = clock /\ clock >= 1
  /\ RetryTimer.alarmTime \in Range(rthr_retryTimes)

\* C29: the retry thread invokes its action only after it has read a
\* clock value that is at or after the first retry time; when the first
\* retry time is after the value read it waits and invokes nothing.
C29_NeverFiresEarly ==
  /\ [][(pc["rthr"] = "r_next" /\ Steps("rthr")) =>
          IF rthr_retryTimes[1] > rthr_now
          THEN pc'["rthr"] = "r_twait" /\ call' = call
          ELSE pc'["rthr"] = "r_fire"]_vars
  /\ [](pc["rthr"] = "r_fire" =>
          /\ rthr_retryTimes # <<>>
          /\ rthr_retryTimes[1] <= rthr_now
          /\ rthr_now <= clock)
  /\ [][(pc'["rthr"] = "lock" /\ pc["rthr"] # "lock")
          => pc["rthr"] = "r_fire"]_vars

\* The retry thread has invoked checkTimers for a retry time of 1 or
\* later after reading a clock that had reached it.
C29_Witness ==
  /\ pc["rthr"] = "lock" /\ call["rthr"].name = "checkTimers"
  /\ rthr_retryTimes # <<>> /\ rthr_retryTimes[1] >= 1
  /\ rthr_now >= rthr_retryTimes[1]

\* C30: the retry times are always in strictly ascending order, and the
\* check of a running timer that is not due, which adds the pop time
\* already in the list, leaves the list as it is.
C30_RetryTimesSorted ==
  /\ [](\A i \in 1..(Len(rthr_retryTimes) - 1) :
          rthr_retryTimes[i] < rthr_retryTimes[i + 1])
  /\ [][\A th \in Threads :
          (/\ pc[th] = "c_check" /\ call'[th] # call[th]
           /\ call[th].todo # <<>>
           /\ IsRunning(RetryTimer) /\ ~Due
           /\ RetryTimer.alarmTime \in Range(rthr_retryTimes))
            => rthr_retryTimes' = rthr_retryTimes]_vars

\* The retry thread has checked a running timer that is not due while
\* two retry times are pending.
C30_Witness ==
  /\ pc["rthr"] = "c_check" /\ call["rthr"].todo = <<>>
  /\ IsRunning(RetryTimer) /\ ~Due
  /\ Len(rthr_retryTimes) >= 2
  /\ RetryTimer.alarmTime \in Range(rthr_retryTimes)

\* C32: once the clock has reached the first retry time, the retry
\* thread, unless an exception has ended it, comes to invoke its action,
\* whatever the interleaving of addRetryTime with its loop.
C32_DeadlineEventuallyFired ==
  (/\ rthr_retryTimes # <<>> /\ rthr_retryTimes[1] <= clock
   /\ pc["rthr"] # "r_dead")
    ~> (pc["rthr"] \in {"r_fire", "r_dead"})

\* C33: after cancel() the retry thread comes to leave its loop, wherever
\* it was when cancel ran.
C33_CancelledThreadExits ==
  rthr_cancelled ~> (pc["rthr"] \in {"r_exit", "r_dead"})

\* C35: the entry the retry thread deletes after it has invoked the
\* action is the retry time it read and found due.
C35_DeletesWhatItFired ==
  [][(pc["rthr"] = "r_del" /\ pc'["rthr"] # "r_del")
       => (/\ rthr_retryTimes # <<>>
           /\ Head(rthr_retryTimes) = rthr_next
           /\ rthr_retryTimes' = Tail(rthr_retryTimes))]_vars

\* The thread is about to start timer n of start_timers, which hands to
\* the retry thread a pop time that is in the list for another running
\* timer and not for n itself.
AddsTimeOfOther(th, n) ==
  /\ pc[th] = "h_start" /\ Steps(th)
  /\ call[th].todo # <<>> /\ Head(call[th].todo) = n
  /\ LET v == NextPopTime(fsm_timers'[n].t) IN
     /\ v # None /\ v \in Range(rthr_retryTimes)
     /\ NextPopTime(fsm_timers[n].t) # v
     /\ \E m \in DOMAIN fsm_timers \ {n} :
          /\ IsRunning(fsm_timers[m].t)
          /\ NextPopTime(fsm_timers[m].t) = v

\* C31 as stated: when a timer registers the retry time another timer
\* has registered, an entry is added for it.
C31_DuplicatesKeyedByTimer ==
  [][\A th \in Threads, n \in DOMAIN fsm_timers :
       AddsTimeOfOther(th, n)
         => Len(rthr_retryTimes') = Len(rthr_retryTimes) + 1]_vars

\* C31 as the code has it: retry times are told apart by value; when a
\* timer registers the retry time another timer has registered the list
\* is unchanged, one checkTimers call visits every timer and pops each
\* that is due, and registering again the pop time of a timer that is
\* not due adds nothing.
C31_DuplicatesKeyedByValue ==
  /\ [][\A th \in Threads, n \in DOMAIN fsm_timers :
          AddsTimeOfOther(th, n)
            => rthr_retryTimes' = rthr_retryTimes]_vars
  /\ [][\A th \in Threads :
          (pc[th] = "lock" /\ pc'[th] = "c_check")
            => Range(call'[th].todo) = DOMAIN fsm_timers]_vars
  /\ [][\A th \in Threads :
          (pc[th] = "c_check" /\ Steps(th) /\ call[th].todo # <<>>) =>
            LET n == Head(call[th].todo)
                t == fsm_timers[n].t
            IN /\ (IsRunning(t) /\ clock >= t.alarmTime)
                    => fsm_timers'[n].t = TmrSetNextPopTime(t)
               /\ (IsRunning(t) /\ clock < t.alarmTime
                   /\ t.alarmTime \in Range(rthr_retryTimes))
                    => rthr_retryTimes' = rthr_retryTimes]_vars

\* Two timers started by one hit were registered under one retry time,
\* and the one firing of the retry thread for it has popped both.
C31_Witness ==
  /\ pc["rthr"] = "unlock" /\ call["rthr"].err = "" /\ rthr_next = 1
  /\ calls = 1
  /\ rthr_retryTimes = <<1, 2>>
  /\ \A n \in PairNames :
       /\ n \in DOMAIN fsm_timers
       /\ fsm_timers[n].t.startTime = 0
       /\ fsm_timers[n].t.alarmTime = 2

\* The locks a thread holds.
Holds(th) ==
  (IF fsm_lock.owner = th THEN {"fsm"} ELSE {})
    \cup (IF rthr_nextTimesLock = th THEN {"list"} ELSE {})
    \cup (IF rthr_newWorkCondition = th THEN {"cond"} ELSE {})

\* The lock the next statement of a thread acquires, if it acquires one.
Wants(th) ==
  CASE pc[th] = "lock" /\ UsesLock(fsm_async) -> {"fsm"}
    [] pc[th] \in {"a_lock", "r_next", "r_del"} -> {"list"}
    [] pc[th] = "r_len" /\ ~rthr_cancelled -> {"list"}
    [] pc[th] \in {"a_cond", "r_wait", "r_twait", "r_tblocked"} -> {"cond"}
    [] pc[th] = "r_blocked" /\ ~rthr_waiting -> {"cond"}
    [] OTHER -> {}

\* C36: no two threads each wait for a lock the other holds, and the
\* locks are taken in one order: the list lock and the lock of the
\* condition are taken with at most the FSM lock held and nothing is
\* acquired while either is held.
C36_NoLockCycle ==
  /\ \A a \in Threads, b \in Threads :
       a # b =>
         ~(Wants(a) \cap Holds(b) # {} /\ Wants(b) \cap Holds(a) # {})
  /\ \A th \in Threads :
       Holds(th) \cap {"list", "cond"} # {}
         => Wants(th) = {} /\ Holds(th) \cap {"list", "cond"} \in
                                 {{"list"}, {"cond"}}

\* The caller, inside hit or checkTimers with the FSM lock held, waits for
\* the list lock while the retry thread holds it.
C36_Witness ==
  /\ pc["main"] = "a_lock"
  /\ fsm_lock.owner = "main"
  /\ rthr_nextTimesLock = "rthr"
  /\ \E th \in Threads : pc[th] = "r_del2"

\* No FSM call is being made and the retry thread is not firing.
Quiet ==
  /\ pc["main"] = "idle"
  /\ pc["rthr"] \notin {"r_fire", "lock", "c_check", "c_notify", "unlock",
                        "r_del"}

\* C34: whenever no call and no firing is in progress, the next pop time
\* of every running timer is among the retry times.
C34_RunningTimersScheduled ==
  Quiet =>
    \A n \in TimerNames :
      (fsm_timers[n].has /\ IsRunning(fsm_timers[n].t))
        => NextPopTime(fsm_timers[n].t) \in Range(rthr_retryTimes)

\* C37: no retry time is an absent pop time.
C37_OnlyRealDeadlines ==
  \A i \in 1..Len(rthr_retryTimes) : rthr_retryTimes[i] # None

\* ------------------------------------------------------------------------
\* TransactionManager.

\* A manager that takes every response for a server's and every request
\* for a client's, whatever its direction.
TmRoleByKind(dir, msg) ==
  IF msg.kind = "request" THEN "client" ELSE "server"

\* The role of the transaction a message belongs to: a request sent or a
\* response received is a client transaction's.
TmRole(dir, msg) ==
  IF (dir = "outbound") = (msg.kind = "request") THEN "client" ELSE "server"

\* A lookup that finds nothing.
TmLookupNothing(table, role, branch) == {}

\* The entries registered under a correlation key.
TmLookup(table, role, branch) ==
  {e \in table : e.role = role /\ e.branch = branch}

\* A manager that makes a fresh transaction for any message.
TmCanCreateAlways(msg) == TRUE

\* Only a request with a branch starts a fresh transaction.
TmCanCreate(msg) == msg.kind = "request" /\ msg.branch # NoBranch

\* A manager whose transactions are all of client type.
TmTypeAlwaysClient(dir) == "client"

\* The type of a transaction created for a request.
TmTypeFor(dir) == IF dir = "outbound" THEN "client" ELSE "server"

\* transaction_for_outbound_message / transaction_for_inbound_message:
\* the manager after the call, the transaction returned and the exception
\* raised ("" for a normal return).
TmTransactionFor(table, txns, next, dir, msg) ==
  LET role == TmRole(dir, msg)
      found == TmLookup(table, role, msg.branch)
      same == [table |-> table, txns |-> txns, next |-> next]
  IN
  IF msg.branch # NoBranch /\ found # {}
  THEN [st |-> same, res |-> (CHOOSE e \in found : TRUE).id, err |-> "",
        created |-> FALSE]
  ELSE IF TmCanCreate(msg)
  THEN [st |-> [table |-> table \cup
                  {[role |-> role, branch |-> msg.branch, id |-> next]},
                txns |-> [txns EXCEPT ![next] =
                            [type |-> TmTypeFor(dir), branch |-> msg.branch,
                             state |-> "live"]],
                next |-> next + 1],
        res |-> next, err |-> "", created |-> TRUE]
  ELSE [st |-> same, res |-> 0, err |-> "ValueError", created |-> FALSE]

\* A manager that keeps a terminated transaction in its table.
TmRemoveNothing(table, id) == table

\* The table once transaction id has reached terminated.
TmRemove(table, id) == {e \in table : e.id # id}

InitTm ==
  /\ clock = 0
  /\ TimerFresh
  /\ FsmFresh(FALSE)
  /\ ThreadsFresh
  /\ TxnFresh
  /\ TmFresh
  /\ TpFresh

\* tm.transaction_for_outbound_message(msg) or
\* tm.transaction_for_inbound_message(msg)
TmCall(dir, msg) ==
  LET r == TmTransactionFor(tm_table, tm_txns, tm_next, dir, msg) IN
  /\ r.created => tm_next <= MaxTxns
  /\ tm_table' = r.st.table
  /\ tm_txns' = r.st.txns
  /\ tm_next' = r.st.next
  /\ tm_op' = [name |-> dir, msg |-> msg, res |-> r.res, err |-> r.err,
               created |-> r.created]
  /\ UNCHANGED <<clock, timerVars, fsmVars, asyncVars, txnVars, tpVars>>

\* A registered transaction reaches terminated and the manager removes it.
TmTerminated(id) ==
  /\ tm_txns[id].state = "live"
  /\ tm_txns' = [tm_txns EXCEPT ![id].state = "terminated"]
  /\ tm_table' = TmRemove(tm_table, id)
  /\ tm_op' = [NoTmOp EXCEPT !.name = "terminated", !.res = id]
  /\ UNCHANGED <<clock, timerVars, fsmVars, asyncVars, txnVars, tpVars, tm_next>>

NextTm ==
  \/ \E dir \in {"outbound", "inbound"}, msg \in TmMsgs : TmCall(dir, msg)
  \/ \E id \in 1..MaxTxns : TmTerminated(id)

SpecTm == InitTm /\ [][NextTm]_vars

\* ------------------------------------------------------------------------
\* Properties of the non-INVITE client transaction (SpecTxn).

\* The times, in ms after the request, at which the request is sent when
\* no response arrives.
SendTimes ==
  <<0, 500, 1500, 3500, 7500, 11500, 15500, 19500, 23500, 27500, 31500>>

\* The number of sends due t ms after the request.
SendsBy(t) == Cardinality({k \in 1..Len(SendTimes) : SendTimes[k] <= t})

\* The step makes a send.
Sends == Len(txn_sent') = Len(txn_sent) + 1

\* C9: with no response the request is sent at once and sent again,
\* unchanged, at each retransmission pop: once the due timers have been
\* checked the number of sends is 1 from 0 ms, 2 from 500, 3 from 1500,
\* 4 from 3500, 5 from 7500, 6 from 11500 ... 11 from 31500, and no send
\* is made before its time.
C9_RetransmissionSchedule ==
  /\ []((txn_state = "trying" /\ TxnQuiescent)
          => Len(txn_sent) = SendsBy(clock - txn_t0))
  /\ [](\A k \in 1..Len(txn_sent) : txn_sent[k] = txn_request)
  /\ [][Len(txn_sent') # Len(txn_sent) =>
          /\ Sends
          /\ Len(txn_sent') <= Len(SendTimes)
          /\ clock - txn_t0' >= SendTimes[Len(txn_sent')]]_vars

\* 31.5 s and more after a request made at 0 the eleventh send has been
\* made and the transaction is still trying.
C9_Witness ==
  /\ txn_state = "trying" /\ TxnQuiescent /\ txn_t0 = 0
  /\ clock >= 31500 /\ clock < DefaultGiveupTimeMS
  /\ Len(txn_sent) = 11
  /\ txn_request = "FAKE MESSAGE"

\* C10, as stated: no more than 6 sends are ever made.
C10_SixSendsInTotal == Len(txn_sent) <= 6

\* C10, amended: 11 sends are made in total, the k-th no earlier than the
\* k-th of 0, 500, 1500, 3500, 7500, 11500, 15500, 19500, 23500, 27500,
\* 31500 ms and, when the timers are checked before the clock goes on,
\* at that time; no 12th send is made, before or after the transaction
\* terminates 32000 ms after the request.
C10_ElevenSendsInTotal ==
  /\ [](Len(txn_sent) <= 11)
  /\ [](txn_state = "terminated" =>
          /\ clock - txn_t0 >= DefaultGiveupTimeMS
          /\ ~txn_late => Len(txn_sent) = 11)
  /\ [][Sends =>
          /\ clock - txn_t0' >= SendTimes[Len(txn_sent')]
          /\ ~txn_late =>
               clock - txn_t0' < SendTimes[Len(txn_sent')] + TxnStep]_vars
  /\ [][txn_state = "terminated" => txn_sent' = txn_sent]_vars

\* The transaction has terminated on time after its eleven sends.
C10_Witness ==
  /\ txn_state = "terminated" /\ ~txn_late
  /\ Len(txn_sent) = 11
  /\ txn_tu = <<"timeout">>

\* C11: with no response the transaction stays in trying while the clock
\* is below the give-up deadline of 32 s after the request; once the
\* clock has reached it and the timers have been checked the transaction
\* is terminated and the transaction user has been told of the timeout,
\* once; after that no send is made and the state does not change.
C11_GiveUp ==
  /\ []((txn_state # "initial" /\ clock - txn_t0 < DefaultGiveupTimeMS)
          => (txn_state = "trying" /\ txn_tu = <<>>))
  /\ []((txn_state # "initial" /\ TxnQuiescent
           /\ clock - txn_t0 >= DefaultGiveupTimeMS)
          => (txn_state = "terminated" /\ txn_tu = <<"timeout">>))
  /\ [][txn_state = "terminated" =>
          (Len(txn_sent') = Len(txn_sent) /\ txn_state' = "terminated"
           /\ txn_tu' = txn_tu)]_vars

\* A request made after the clock started has timed out, and the clock
\* has gone on since.
C11_Witness ==
  /\ txn_state = "terminated" /\ txn_tu = <<"timeout">>
  /\ txn_t0 > 0
  /\ clock - txn_t0 > DefaultGiveupTimeMS
  /\ Len(txn_sent) > 1

\* The step delivers an input to the transaction.
Delivers == txn_in'.n = txn_in.n + 1

C13_UnexpectedInputDropped ==
  [][(Delivers /\ txn_in'.input \notin TxnInputsOf(txn_state)) =>
       (/\ txn_in'.err = ""
        /\ txn_state' = txn_state
        /\ txn_timers' = txn_timers
        /\ txn_wait' = txn_wait)]_vars

\* C20: setState(s) sets the current state to s when the table holds a
\* transition with old_state s, and otherwise raises and leaves the
\* current state unchanged; timers and retry times are untouched.
C20_SetState ==
  [][Called("setState") =>
       LET s == op'.input
           used == /\ s \in States
                   /\ \E i \in Inputs : fsm_transitions[s][i].present
       IN /\ used => (fsm_state' = s /\ op'.err = "")
          /\ ~used => (fsm_state' = fsm_state /\ op'.err # "")
          /\ fsm_timers' = fsm_timers
          /\ rthr_retryTimes' = rthr_retryTimes
          /\ fsm_transitions' = fsm_transitions]_vars

\* setState was refused for a state that is only a new_state, and the
\* FSM stayed in another state.
C20_Witness ==
  /\ op.name = "setState" /\ op.err # ""
  /\ op.input \in States
  /\ \E s \in States, i \in Inputs :
       fsm_transitions[s][i].present /\ fsm_transitions[s][i].new = op.input
  /\ fsm_state # op.input /\ fsm_state # NoState

\* C21: addTransition on an FSM with no current state sets the state to
\* its old_state when it succeeds and leaves the FSM without a state when
\* it fails; on an FSM that has a state it leaves the state unchanged.
C21_FirstTransitionSetsState ==
  [][Called("addTransition") =>
       /\ (fsm_state = NoState /\ op'.err = "") => fsm_state' = op'.from
       /\ (fsm_state = NoState /\ op'.err # "") => fsm_state' = NoState
       /\ fsm_state # NoState => fsm_state' = fsm_state]_vars

\* A later addTransition from another old_state succeeded and the state
\* is still the old_state of the first.
C21_Witness ==
  /\ op.name = "addTransition" /\ op.err = ""
  /\ op.from = "starting" /\ fsm_state = "initial"

\* C38: an addTransition that fails because a timer it names is not
\* registered leaves the table and the state as they were before the call.
C38_FailedAddTransitionChangesNothing ==
  [][(/\ Called("addTransition") /\ op'.err # ""
      /\ ~fsm_transitions[op'.from][op'.input].present)
       => (fsm_transitions' = fsm_transitions /\ fsm_state' = fsm_state)]_vars

\* C24: Timer takes as retryer a list of waits or a generator function
\* and raises ValueError for an iterator, a number and a function that
\* returns no iterator; addTimer with a retryer that is refused raises
\* and registers no timer.
C24_RetryerValidated ==
  /\ [](\A k \in RetrySpecKinds :
          (TmrInitErr(k) = "") <=> (k \in {"list", "generator_function"}))
  /\ [][Called("addTimer") =>
          IF op'.arg \in {"list", "generator_function"}
          THEN op'.err = "" /\ fsm_timers'[op'.input].has
          ELSE op'.err = "ValueError" /\ fsm_timers' = fsm_timers]_vars

\* addTimer was refused for a number and the name is still free.
C24_Witness ==
  /\ op.name = "addTimer" /\ op.arg = "number" /\ op.err = "ValueError"
  /\ ~fsm_timers[op.input].has

\* ------------------------------------------------------------------------
\* Properties of the TransactionManager (SpecTm).

\* The entries the table holds under a correlation key.
Registered(role, branch) ==
  {e \in tm_table : e.role = role /\ e.branch = branch}

\* The step is a call of the lookup in direction dir with a message of
\* the given kind.
TmCalled(dir, kind) == tm_op'.name = dir /\ tm_op'.msg.kind = kind

\* C14: transaction_for_outbound_message with a request that carries a
\* branch returns the client transaction registered under that branch,
\* creating it only when there is none, so repeated calls return the same
\* instance; transactions of different branches are different instances.
C14_OutboundIdempotentInjective ==
  /\ [][(TmCalled("outbound", "request") /\ tm_op'.msg.branch # NoBranch) =>
          LET old == Registered("client", tm_op'.msg.branch) IN
          /\ tm_op'.err = ""
          /\ tm_txns'[tm_op'.res].type = "client"
          /\ [role |-> "client", branch |-> tm_op'.msg.branch,
              id |-> tm_op'.res] \in tm_table'
          /\ old # {} => /\ \A e \in old : e.id = tm_op'.res
                         /\ ~tm_op'.created
                         /\ tm_table' = tm_table
          /\ old = {} => /\ tm_op'.created
                         /\ \A e \in tm_table : e.id # tm_op'.res]_vars
  /\ [](\A e1, e2 \in tm_table : e1.branch # e2.branch => e1.id # e2.id)

\* A second outbound call with the request of branch1 returned the
\* transaction of the first, while branch2 has another transaction.
C14_Witness ==
  /\ tm_op.name = "outbound" /\ tm_op.msg.kind = "request"
  /\ tm_op.msg.branch = "branch1" /\ ~tm_op.created /\ tm_op.res # 0
  /\ \E e \in Registered("client", "branch2") : e.id # tm_op.res

\* C15: an inbound response resolves to the client transaction registered
\* under its branch and an outbound response to the server transaction
\* registered under its branch, whichever of the two was created first,
\* and the lookup creates nothing.
C15_ResponseMatchingSymmetric ==
  /\ [][(TmCalled("inbound", "response")
          /\ Registered("client", tm_op'.msg.branch) # {}) =>
          /\ tm_op'.err = ""
          /\ \A e \in Registered("client", tm_op'.msg.branch) :
               e.id = tm_op'.res
          /\ tm_txns[tm_op'.res].type = "client"
          /\ UNCHANGED <<tm_table, tm_txns, tm_next>>]_vars
  /\ [][(TmCalled("outbound", "response")
          /\ Registered("server", tm_op'.msg.branch) # {}) =>
          /\ tm_op'.err = ""
          /\ \A e \in Registered("server", tm_op'.msg.branch) :
               e.id = tm_op'.res
          /\ tm_txns[tm_op'.res].type = "server"
          /\ UNCHANGED <<tm_table, tm_txns, tm_next>>]_vars

\* An inbound response was resolved to its client transaction although
\* the server transaction of the same branch was created first.
C15_Witness ==
  /\ tm_op.name = "inbound" /\ tm_op.msg.kind = "response"
  /\ tm_op.res # 0
  /\ \E e \in Registered("server", tm_op.msg.branch) : e.id < tm_op.res

\* C16: transaction_for_inbound_message with a request that carries a
\* branch returns the server transaction registered under that branch,
\* creating and registering it when there is none; it is never the
\* client transaction of the same branch.
C16_InboundRequestServer ==
  [][(TmCalled("inbound", "request") /\ tm_op'.msg.branch # NoBranch) =>
       LET old == Registered("server", tm_op'.msg.branch) IN
       /\ tm_op'.err = ""
       /\ tm_txns'[tm_op'.res].type = "server"
       /\ [role |-> "server", branch |-> tm_op'.msg.branch,
           id |-> tm_op'.res] \in tm_table'
       /\ \A e \in Registered("client", tm_op'.msg.branch) :
            e.id # tm_op'.res
       /\ old = {} => /\ tm_op'.created
                      /\ \A e \in tm_table : e.id # tm_op'.res
       /\ old # {} => /\ \A e \in old : e.id = tm_op'.res
                      /\ tm_table' = tm_table]_vars

\* The inbound lookup of a request was repeated and returned the server
\* transaction again, a client transaction of the branch being there.
C16_Witness ==
  /\ tm_op.name = "inbound" /\ tm_op.msg.kind = "request"
  /\ ~tm_op.created /\ tm_op.res # 0
  /\ Registered("client", tm_op.msg.branch) # {}

\* C17: transaction_for_outbound_message raises ValueError and leaves the
\* manager as it was for a message without a branch and for a response
\* that has no server transaction under its branch.
C17_OutboundValueError ==
  [][(tm_op'.name = "outbound"
       /\ \/ tm_op'.msg.branch = NoBranch
          \/ /\ tm_op'.msg.kind = "response"
             /\ Registered("server", tm_op'.msg.branch) = {}) =>
       /\ tm_op'.err = "ValueError"
       /\ tm_op'.res = 0
       /\ UNCHANGED <<tm_table, tm_txns, tm_next>>]_vars

\* An outbound response was refused although a client transaction with
\* its branch was registered.
C17_Witness ==
  /\ tm_op.name = "outbound" /\ tm_op.msg.kind = "response"
  /\ tm_op.err = "ValueError"
  /\ Registered("client", tm_op.msg.branch) # {}

\* C18: the table holds at most one transaction per role and branch, and
\* only transactions that have not terminated; a transaction that
\* terminates leaves the table; a transaction is registered only under a
\* key that has no entry.
C18_TableLifecycle ==
  /\ [](\A e1, e2 \in tm_table :
          (e1.role = e2.role /\ e1.branch = e2.branch) => e1 = e2)
  /\ [](\A e \in tm_table : tm_txns[e.id].state = "live")
  /\ [][\A id \in 1..MaxTxns :
          (tm_txns[id].state = "live" /\ tm_txns'[id].state = "terminated")
            => \A e \in tm_table' : e.id # id]_vars
  /\ [][\A e \in tm_table' \ tm_table :
          Registered(e.role, e.branch) = {}]_vars

\* A key is bound to a transaction after an earlier transaction of that
\* key terminated.
C18_Witness ==
  \E e \in tm_table : \E id \in 1..MaxTxns :
    /\ tm_txns[id].state = "terminated"
    /\ tm_txns[id].branch = e.branch
    /\ tm_txns[id].type = tm_txns[e.id].type

\* ------------------------------------------------------------------------
\* Properties of the blocking calls of the transport (FairSpecTransport).

\* The states the decorator of a method names as its end states.
TpDeclared(name) == TpEndStates(name).of

\* C40: a blocking call hits the FSM with the error input only when more
\* than the timeout has passed since it began to wait, and from then on
\* waits for the error state only; it ends, by returning or raising, no
\* later than the second expiry of the timeout; and when it returns the
\* state is one of its end states or error.
C40_BlockingCallsBounded ==
  /\ [][tp_call'.esc > tp_call.esc =>
          /\ tp_call.now - tp_call.start > TpTimeout
          /\ tp_call'.end = TpNewEndStates
          /\ tp_call'.start = tp_call.now]_vars
  /\ [](tp_call.pc # "idle" =>
          /\ tp_call.esc <= 1
          /\ tp_call.now - tp_call.t0 <= 2 * (TpTimeout + 1))
  /\ (tp_call.pc # "idle") ~> (tp_call.pc = "idle")
  /\ [][(tp_call.pc = "final" /\ tp_call'.out = "returned")
          => tp_state' \in TpDeclared(tp_call.name) \cup {"error"}]_vars

\* ------------------------------------------------------------------------
\* Properties of the Timer (SpecTimer).

Waits == tmr.retryer.waits

\* The timer as start() leaves it, when the call is made at clock c and
\* the waits are not empty: started at c, on a fresh sequence, due at c
\* plus the first wait.
FreshlyStarted(t, c) ==
  /\ t.startTime = c
  /\ t.iter = IterAdvance([t EXCEPT !.iter = FreshIter(t)])
  /\ t.alarmTime = c + t.retryer.waits[1]

\* C4: with an action that only counts, the k-th pop after a start at t0
\* happens at a clock >= t0 + w1 + ... + wk; a check before the deadline
\* does not pop; n waits give at most n pops, and after the n-th the timer
\* is not running; a generator of a constant wait never stops by itself.
C4_PopSchedule ==
  tmr.action = "count" =>
    /\ top.popped => top.at >= top.t0 + SumWaits(tmr.retryer, top.k)
    /\ (top.name = "check" /\ top.err = "" /\ ~top.popped)
         => top.at < tmr.alarmTime
    /\ ~tmr.retryer.gen =>
         /\ npop <= Len(Waits)
         /\ (top.popped /\ top.k = Len(Waits)) => ~IsRunning(tmr)
    /\ (tmr.retryer.gen /\ top.name \in {"start", "check"} /\ top.err = "")
         => IsRunning(tmr)

\* C19: check() on a timer that is not running raises the not-running
\* error, and with the do-not-raise option returns without an error; in
\* both cases no action is invoked and the timer is unchanged.
C19_CheckNotRunning ==
  [][(clock' = clock /\ ~IsRunning(tmr)) =>
       /\ top'.name = "check" =>
            (top'.err = "TimerNotRunning" /\ ~top'.popped
             /\ pops' = pops /\ tmr' = tmr)
       /\ top'.name = "check_tolerant" =>
            (top'.err = "" /\ ~top'.popped
             /\ pops' = pops /\ tmr' = tmr)]_vars

\* C26: for waits [0, w] with w > 0 and an action that only counts, a
\* check made at the clock of the start pops, the checks made while the
\* clock stays there give one pop in total, and the second pop happens
\* only at a clock >= start + w.
C26_ZeroWaitPopsOnce ==
  (/\ tmr.action = "count" /\ ~tmr.retryer.gen
   /\ Len(Waits) = 2 /\ Waits[1] = 0 /\ Waits[2] > 0
   /\ startSnap.clock # None) =>
    /\ (top.name = "check" /\ top.err = "" /\ top.at = startSnap.clock)
         => npop = 1
    /\ (top.popped /\ top.k = 2) => top.at >= startSnap.clock + Waits[2]

\* C28: while the timer is running its next pop time is at or after its
\* start time, and a pop that leaves the timer running leaves a next pop
\* time strictly greater than the one before the pop.
C28_PopTimeMonotone ==
  /\ [](IsRunning(tmr) => tmr.alarmTime >= tmr.startTime)
  /\ [][(pops' = pops + 1 /\ IsRunning(tmr'))
          => tmr'.alarmTime > tmr.alarmTime]_vars

\* C39: after any start, stop or check call, whatever the pop action
\* does, the timer is running exactly when its next pop time is set; so
\* the check that checkTimers makes of a running timer does not raise the
\* not-running error.
C39_RunningCoherent ==
  /\ IsRunning(tmr) <=> NextPopTime(tmr) # None
  /\ IsRunning(tmr) => TmrCheck(tmr, clock).err # "TimerNotRunning"

\* A pop whose action stopped the timer has left it not running and
\* without a pop time.
C39_Witness ==
  /\ top.name = "check" /\ top.popped /\ top.at >= 1
  /\ tmr.action = "stop"
  /\ ~IsRunning(tmr) /\ NextPopTime(tmr) = None

\* C5: after every start() call of a timer with waits, start_time is the
\* clock of the call, the sequence is fresh and next_pop_time is start_time
\* plus the first wait.
C5_StartFresh ==
  (startSnap.clock # None /\ Waits # <<>>)
    => FreshlyStarted(startSnap.tmr, startSnap.clock)

\* C6: start() on a timer that has exhausted its waits makes it run again
\* on the whole sequence, due the first wait after the restart, and the
\* first check made at or after that time pops, and none before.
C6_RestartAfterExhaustion ==
  (startSnap.prior = "exhausted" /\ Waits # <<>>) =>
    /\ IsRunning(startSnap.tmr)
    /\ FreshlyStarted(startSnap.tmr, startSnap.clock)
    /\ (top.name = "check" /\ ~top.popped /\ npop = 0 /\ IsRunning(tmr))
         => top.at < startSnap.clock + Waits[1]
    /\ (top.popped /\ top.k = 1 /\ top.t0 = startSnap.clock)
         => top.at >= startSnap.clock + Waits[1]

\* Two waits were exhausted by two pops, the timer was started again and
\* has popped a third time.
C6_Witness ==
  /\ startSnap.prior = "exhausted"
  /\ ~tmr.retryer.gen /\ Len(Waits) = 2 /\ Waits[1] > 0
  /\ tmr.action = "count"
  /\ top.popped /\ top.k = 1 /\ pops = 3
  /\ top.at = startSnap.clock + Waits[1]

====
